---- MODULE Spec2Model ----
(***************************************************************************)
(* Model of the vitals service of sam_service: the per-session scorer      *)
(* (VitalsSession), the source fallback chain                              *)
(* (process_frame_with_custom_metrics), the focus-time bookkeeping of the  *)
(* two EyeTracker variants and the session registry (start_session,        *)
(* process_frame, stop_session) of vitals_service.py.                      *)
(*                                                                         *)
(* Units.  Heart, breathing and blink rates are integers (per minute).     *)
(* eye_movement_stability is counted in hundredths (0.8 is 80).            *)
(* focus_duration and all clock readings are counted in ticks of 0.1 s     *)
(* (5.0 s is 50).  An optional value is <<>> (None) or <<v>>.  A mean is   *)
(* the exact fraction [num, den].  The wall-clock 'timestamp' field of a   *)
(* Metric is not kept: no operation of the service reads it.               *)
(***************************************************************************)
EXTENDS Integers, Sequences, FiniteSets, TLC

VARIABLES
    \* ---- VitalsSession driven directly (SpecScorer) ----
    session,        \* the VitalsSession object
    calls,          \* number of add_metrics invocations made so far
    pushed_hr,      \* log of every non-None heart rate handed to add_metrics
    pushed_br,      \* log of every non-None breathing rate handed to add_metrics
    last_result,    \* outcome of the latest add_metrics call
    call_log,       \* per logged add_metrics call: its input and its outcome
    \* ---- fallback chain (SpecChain) ----
    chain_in,       \* what the collaborators of one chain run will do
    chain_out,      \* outcome of the chain run
    \* ---- EyeTracker focus bookkeeping (SpecGaze) ----
    tracker,        \* the EyeTracker object
    now,            \* wall clock, time.time()
    gaze_log,       \* per processed frame: what the frame showed and what was returned
    \* ---- CustomMetricsProcessor in front of a VitalsSession (SpecPipeline) ----
    monitor,        \* the HeartRateMonitor object
    custom_processor, \* the CustomMetricsProcessor object's own fields
    sensed,         \* what the monitor and the tracker returned for the latest frame
    \* ---- registry and request handlers (SpecRegistry) ----
    PRESAGE_API_KEY, \* the key configured in the environment, None when not set
    sessions,       \* the global dict: session id -> object handle
    session_lock,   \* holder of session_lock, or NoThread
    heap,           \* every VitalsSession object ever created, by handle
    closed,         \* handles whose registry entry stop_session has deleted
    req,            \* per worker thread: the request it is handling and its position
    issued,         \* number of requests received so far
    touched_closed  \* handles that were mutated after they had been closed

vars == <<session, calls, pushed_hr, pushed_br, last_result, call_log,
          chain_in, chain_out, tracker, now, gaze_log,
          monitor, custom_processor, sensed,
          PRESAGE_API_KEY,
          sessions, session_lock, heap, closed, req, issued, touched_closed>>

scorerVars   == <<session, calls, pushed_hr, pushed_br, last_result, call_log>>
chainVars    == <<chain_in, chain_out>>
gazeVars     == <<tracker, now, gaze_log>>
pipelineVars == <<monitor, custom_processor, sensed>>
registryVars == <<PRESAGE_API_KEY, sessions, session_lock, heap, closed, req, issued, touched_closed>>

-----------------------------------------------------------------------------
(* Optional values and small arithmetic helpers *)

None == <<>>
Some(v) == <<v>>
Val(o) == o[1]

Min2(a, b) == IF a < b THEN a ELSE b
Max2(a, b) == IF a > b THEN a ELSE b

RECURSIVE SeqSum(_)
SeqSum(s) == IF s = <<>> THEN 0 ELSE Head(s) + SeqSum(Tail(s))

RECURSIVE SeqSumSq(_)
SeqSumSq(s) == IF s = <<>> THEN 0 ELSE Head(s) * Head(s) + SeqSumSq(Tail(s))

\* list(x)[:n]
Take(s, n) == SubSeq(s, 1, Min2(n, Len(s)))

\* np.mean over a non-empty list, as an exact fraction
Mean(s) == [num |-> SeqSum(s), den |-> Len(s)]

\* n^2 times the population variance of s (np.var(s) = VarTimesN2(s) / Len(s)^2)
VarTimesN2(s) == Len(s) * SeqSumSq(s) - SeqSum(s) * SeqSum(s)

\* np.std(s) < p/q, for p, q > 0, without taking a root
StdBelow(s, p, q) == q * q * VarTimesN2(s) < p * p * Len(s) * Len(s)

\* append(x) on a deque that has no maxlen
DequeAppendUnbounded(q, x, cap) == Append(q, x)

\* collections.deque(maxlen=cap).append(x)
DequeAppend(q, x, cap) ==
    IF Len(q) >= cap THEN Append(Tail(q), x) ELSE Append(q, x)

-----------------------------------------------------------------------------
(* VitalsSession *)

MetricsHistoryCap == 100
RateHistoryCap == 30
EyeHistoryCap == 100
BaselineSamples == 5
THINKING_BREATHING_SLOW_THRESHOLD == 12
THINKING_HEART_RATE_INCREASE == 10

\* VitalsSession.__init__ (the fields the scorer owns)
NewSession ==
    [ metrics_history          |-> <<>>,
      heart_rates              |-> <<>>,
      breathing_rates          |-> <<>>,
      baseline_heart_rate      |-> None,
      baseline_breathing_rate  |-> None,
      frame_count              |-> 0,
      gaze_directions          |-> <<>>,
      blink_rates              |-> <<>>,
      eye_movement_stabilities |-> <<>>,
      focus_durations          |-> <<>> ]

\* a value returned by a method, or an exception leaving it
Ret(v) == [kind |-> "return", value |-> v]
Raise(e) == [kind |-> "raise", exc |-> e]

\* math.abs(x): the math module has no attribute 'abs'
MathAbs(x) == Raise("AttributeError")

\* add_metrics, lines 109-113: the heart-rate channel
PushHeartRateRecompute(s, heart_rate) ==
    IF heart_rate = None THEN s
    ELSE LET hrs == DequeAppend(s.heart_rates, Val(heart_rate), RateHistoryCap)
         IN [s EXCEPT !.heart_rates = hrs,
                      !.baseline_heart_rate =
                          IF Len(hrs) >= BaselineSamples
                          THEN Some(Mean(Take(hrs, BaselineSamples)))
                          ELSE @]

PushHeartRate(s, heart_rate) ==
    IF heart_rate = None THEN s
    ELSE LET hrs == DequeAppend(s.heart_rates, Val(heart_rate), RateHistoryCap)
         IN [s EXCEPT !.heart_rates = hrs,
                      !.baseline_heart_rate =
                          IF @ = None /\ Len(hrs) >= BaselineSamples
                          THEN Some(Mean(Take(hrs, BaselineSamples)))
                          ELSE @]

\* add_metrics, lines 115-118: the breathing-rate channel
PushBreathingRate(s, breathing_rate) ==
    IF breathing_rate = None THEN s
    ELSE LET brs == DequeAppend(s.breathing_rates, Val(breathing_rate), RateHistoryCap)
         IN [s EXCEPT !.breathing_rates = brs,
                      !.baseline_breathing_rate =
                          IF @ = None /\ Len(brs) >= BaselineSamples
                          THEN Some(Mean(Take(brs, BaselineSamples)))
                          ELSE @]

\* add_metrics, lines 121-128: the eye-tracking histories
PushEyeMetrics(s, gaze_direction, blink_rate, eye_movement_stability, focus_duration) ==
    [s EXCEPT
       !.gaze_directions =
           IF gaze_direction # "unknown"
           THEN DequeAppend(@, gaze_direction, EyeHistoryCap) ELSE @,
       !.blink_rates =
           IF blink_rate # None
           THEN DequeAppend(@, Val(blink_rate), EyeHistoryCap) ELSE @,
       !.eye_movement_stabilities =
           IF eye_movement_stability > 0
           THEN DequeAppend(@, eye_movement_stability, EyeHistoryCap) ELSE @,
       !.focus_durations =
           IF focus_duration > 0
           THEN DequeAppend(@, focus_duration, EyeHistoryCap) ELSE @]

\* _calculate_focus_score: returns 0 at line 159 when a rate is None; with
\* both rates present line 165 calls math.abs, which raises before any
\* later statement of the method runs.
CalculateFocusScoreBothMissing(s, heart_rate, breathing_rate, gaze_direction, eye_movement_stability, focus_duration) ==
    IF heart_rate = None /\ breathing_rate = None THEN Ret(0)
    ELSE MathAbs(0)

CalculateFocusScore(s, heart_rate, breathing_rate, gaze_direction, eye_movement_stability, focus_duration) ==
    IF heart_rate = None \/ breathing_rate = None THEN Ret(0)
    ELSE MathAbs((100 - Val(heart_rate)) - (Val(heart_rate) - 60))

\* int(base * f1/100 * f2/100) for base >= 0, as binary64 arithmetic gives
\* it.  For the bases and factors of the two score methods the product is
\* the exact one except 90 * 0.7 (* 1.0), which is 62.99999999999999.
FloatProductInt(base, f1, f2) ==
    IF base = 90 /\ {f1, f2} = {100, 70} THEN 62
    ELSE (base * f1 * f2) \div 10000

\* min(100, max(0, int(base * f1/100 * f2/100)))
ScaleClamp(base, f1, f2) == Min2(100, Max2(0, FloatProductInt(base, f1, f2)))

\* _calculate_engagement_score
CalculateEngagementScore(s, heart_rate, breathing_rate, gaze_direction, blink_rate) ==
    IF heart_rate = None \/ breathing_rate = None THEN Ret(0)
    ELSE
    LET hr == Val(heart_rate)
        br == Val(breathing_rate)
        hrBonus == IF 70 <= hr /\ hr <= 90 THEN 30
                   ELSE IF (60 <= hr /\ hr < 70) \/ (90 < hr /\ hr <= 100) THEN 20
                   ELSE 10
        brBonus == IF 12 <= br /\ br <= 18 THEN 20
                   ELSE IF (10 <= br /\ br < 12) \/ (18 < br /\ br <= 20) THEN 15
                   ELSE 10
        base_score == Min2(100, 50 + hrBonus + brBonus)
        gaze_factor == IF gaze_direction = "screen" THEN 100
                       ELSE IF gaze_direction = "away" THEN 60
                       ELSE 85
        blink_factor ==
            IF blink_rate # None
            THEN LET b == Val(blink_rate)
                 IN IF 12 <= b /\ b <= 25 THEN 100
                    ELSE IF (8 <= b /\ b < 12) \/ (25 < b /\ b <= 30) THEN 90
                    ELSE IF b < 8 THEN 70
                    ELSE 80
            ELSE 90
    IN Ret(ScaleClamp(base_score, gaze_factor, blink_factor))

\* _calculate_thinking_intensity
CalculateThinkingIntensity(s, heart_rate, breathing_rate, gaze_direction, eye_movement_stability) ==
    IF heart_rate = None \/ breathing_rate = None THEN Ret(0)
    ELSE
    LET hr == Val(heart_rate)
        br == Val(breathing_rate)
        stab == eye_movement_stability
        brBonus == IF br < THINKING_BREATHING_SLOW_THRESHOLD THEN 30
                   ELSE IF br < THINKING_BREATHING_SLOW_THRESHOLD + 2 THEN 20
                   ELSE 10
        hrBonus ==
            IF s.baseline_heart_rate # None
            THEN LET b == Val(s.baseline_heart_rate)
                     \* heart_increase * den
                     inc == hr * b.den - b.num
                 IN IF 5 * b.den <= inc /\ inc <= THINKING_HEART_RATE_INCREASE * b.den
                    THEN 20
                    ELSE IF inc > THINKING_HEART_RATE_INCREASE * b.den THEN 10
                    ELSE 0
            ELSE 10
        stableBonus ==
            IF Len(s.heart_rates) >= 5 /\ Len(s.breathing_rates) >= 5
            THEN IF StdBelow(s.heart_rates, 3, 1) /\ StdBelow(s.breathing_rates, 3, 2)
                 THEN 20
                 ELSE IF StdBelow(s.heart_rates, 5, 1) /\ StdBelow(s.breathing_rates, 2, 1)
                 THEN 10
                 ELSE 0
            ELSE 0
        base_score == Min2(100, 50 + brBonus + hrBonus + stableBonus)
        gaze_stability_factor ==
            IF gaze_direction = "screen" /\ stab > 70 THEN 100
            ELSE IF gaze_direction = "screen" /\ stab > 50 THEN 90
            ELSE IF gaze_direction = "screen" THEN 75
            ELSE IF gaze_direction = "away" THEN 50
            ELSE 70
        stability_factor ==
            IF stab > 80 THEN 100
            ELSE IF stab > 60 THEN 90
            ELSE IF stab > 40 THEN 75
            ELSE IF stab > 20 THEN 60
            ELSE IF stab > 0 THEN 50
            ELSE 40
    IN Ret(ScaleClamp(base_score, gaze_stability_factor, stability_factor))

\* The Metric dict built at lines 135-146
Metric(heart_rate, breathing_rate, focus_score, engagement_score, thinking_intensity, gaze_direction, blink_rate, eye_movement_stability, focus_duration) ==
    [ heart_rate             |-> heart_rate,
      breathing_rate         |-> breathing_rate,
      focus_score            |-> focus_score,
      engagement_score       |-> engagement_score,
      thinking_intensity     |-> thinking_intensity,
      gaze_direction         |-> gaze_direction,
      blink_rate             |-> blink_rate,
      eye_movement_stability |-> eye_movement_stability,
      focus_duration         |-> focus_duration ]

\* An input of add_metrics
MetricsInput(hr, br, gaze, blink, stab, dur) ==
    [ heart_rate |-> hr, breathing_rate |-> br, gaze_direction |-> gaze,
      blink_rate |-> blink, eye_movement_stability |-> stab, focus_duration |-> dur ]

\* add_metrics, lines 148-149, returning the metric at line 151
RecordMetricNoCount(s, metric) ==
    [ s      |-> [s EXCEPT !.metrics_history = DequeAppend(@, metric, MetricsHistoryCap)],
      result |-> Ret(metric) ]

RecordMetric(s, metric) ==
    [ s      |-> [s EXCEPT !.metrics_history = DequeAppend(@, metric, MetricsHistoryCap),
                           !.frame_count = @ + 1],
      result |-> Ret(metric) ]

\* VitalsSession.add_metrics: the object after the call and the call's outcome.
\* The histories are pushed first (lines 109-128); an exception raised by a
\* score method leaves the call there, before lines 135-149.
AddMetrics(s, in) ==
    LET s1 == PushHeartRate(s, in.heart_rate)
        s2 == PushBreathingRate(s1, in.breathing_rate)
        s3 == PushEyeMetrics(s2, in.gaze_direction, in.blink_rate,
                             in.eye_movement_stability, in.focus_duration)
        focus == CalculateFocusScore(s3, in.heart_rate, in.breathing_rate,
                     in.gaze_direction, in.eye_movement_stability, in.focus_duration)
        engagement == CalculateEngagementScore(s3, in.heart_rate, in.breathing_rate,
                          in.gaze_direction, in.blink_rate)
        thinking == CalculateThinkingIntensity(s3, in.heart_rate, in.breathing_rate,
                        in.gaze_direction, in.eye_movement_stability)
    IN IF focus.kind = "raise" THEN [s |-> s3, result |-> focus]
       ELSE IF engagement.kind = "raise" THEN [s |-> s3, result |-> engagement]
       ELSE IF thinking.kind = "raise" THEN [s |-> s3, result |-> thinking]
       ELSE RecordMetric(s3,
                Metric(in.heart_rate, in.breathing_rate, focus.value,
                       engagement.value, thinking.value, in.gaze_direction,
                       in.blink_rate, in.eye_movement_stability, in.focus_duration))

\* [m[key] for m in metrics_list]
RECURSIVE Column(_, _)
Column(ms, key) ==
    IF ms = <<>> THEN <<>> ELSE <<Head(ms)[key]>> \o Column(Tail(ms), key)

\* [m[key] for m in metrics_list if m[key] is not None]
RECURSIVE PresentColumn(_, _)
PresentColumn(ms, key) ==
    IF ms = <<>> THEN <<>>
    ELSE (IF Head(ms)[key] # None THEN <<Val(Head(ms)[key])>> ELSE <<>>)
         \o PresentColumn(Tail(ms), key)

\* get_aggregated_metrics answering None when no heart rate was recorded
GetAggregatedMetricsNeedsRate(s) ==
    IF PresentColumn(s.metrics_history, "heart_rate") = <<>> THEN None
    ELSE Some([ total_frames |-> s.frame_count ])

\* VitalsSession.get_aggregated_metrics.  A standard deviation is reported by
\* its square, the population variance, as the fraction [num, den].
GetAggregatedMetrics(s) ==
    IF Len(s.metrics_history) = 0 THEN None
    ELSE
    LET heart_rates == PresentColumn(s.metrics_history, "heart_rate")
        breathing_rates == PresentColumn(s.metrics_history, "breathing_rate")
        focus_scores == Column(s.metrics_history, "focus_score")
        engagement_scores == Column(s.metrics_history, "engagement_score")
        thinking_intensities == Column(s.metrics_history, "thinking_intensity")
        Variance(xs) == [num |-> VarTimesN2(xs), den |-> Len(xs) * Len(xs)]
    IN Some(
       [ average_heart_rate         |-> IF heart_rates # <<>> THEN Some(Mean(heart_rates)) ELSE None,
         average_breathing_rate     |-> IF breathing_rates # <<>> THEN Some(Mean(breathing_rates)) ELSE None,
         average_focus_score        |-> Mean(focus_scores),
         average_engagement_score   |-> Mean(engagement_scores),
         average_thinking_intensity |-> Mean(thinking_intensities),
         heart_rate_variance        |-> IF Len(heart_rates) > 1 THEN Some(Variance(heart_rates)) ELSE None,
         breathing_rate_variance    |-> IF Len(breathing_rates) > 1 THEN Some(Variance(breathing_rates)) ELSE None,
         total_frames               |-> s.frame_count ])

-----------------------------------------------------------------------------
(* SpecScorer: one VitalsSession driven by a sequence of add_metrics calls *)

\* The first MaxVaried calls take any input of ScorerInputs; the calls after
\* them, up to MaxCalls, repeat SteadyInput, which carries the run past the
\* capacity of the 30-entry rate histories.
MaxVaried == 5
MaxCalls == 33

SteadyInput == MetricsInput(Some(72), Some(16), "screen", Some(15), 90, 60)

ScorerInputs ==
    { SteadyInput,
      MetricsInput(Some(250), Some(3), "screen", Some(40), 9000, 1),
      MetricsInput(None, None, "unknown", None, 0, 0),
      MetricsInput(Some(80), None, "away", None, 50, 10),
      MetricsInput(None, Some(10), "screen", Some(5), 30, 0) }

InputsAt(n) == IF n < MaxVaried THEN ScorerInputs ELSE {SteadyInput}

\* the log of the samples of one channel handed to add_metrics
EmptyLog == [n |-> 0, first |-> <<>>]
Logged(log, x) ==
    IF x = None THEN log
    ELSE [n |-> log.n + 1,
          first |-> IF Len(log.first) < BaselineSamples
                    THEN Append(log.first, Val(x)) ELSE log.first]

NoResult == [kind |-> "none"]

ChainIdle == [phase |-> "idle"]
TrackerIdle == [variant |-> "idle"]
MonitorIdle == [roi_initialized |-> FALSE]
ProcessorIdle == [frame_count |-> 0]

\* the parts of the state a specification does not drive stay at these values
IdleScorer ==
    /\ session = NewSession /\ calls = 0
    /\ pushed_hr = EmptyLog /\ pushed_br = EmptyLog /\ last_result = NoResult
    /\ call_log = <<>>
IdleChain == chain_in = ChainIdle /\ chain_out = NoResult
IdleGaze == tracker = TrackerIdle /\ now = 0 /\ gaze_log = <<>>
IdlePipeline == monitor = MonitorIdle /\ custom_processor = ProcessorIdle /\ sensed = NoResult
IdleRegistry ==
    /\ PRESAGE_API_KEY = None
    /\ sessions = <<>> /\ session_lock = 0 /\ heap = <<>> /\ closed = {}
    /\ req = <<>> /\ issued = 0 /\ touched_closed = {}

ScorerInit ==
    /\ session = NewSession
    /\ calls = 0
    /\ pushed_hr = EmptyLog
    /\ pushed_br = EmptyLog
    /\ last_result = NoResult
    /\ call_log = <<>>
    /\ IdleChain /\ IdleGaze /\ IdleRegistry /\ IdlePipeline

\* one call session.add_metrics(...)
AddMetricsCall ==
    /\ calls < MaxCalls
    /\ \E in \in InputsAt(calls) :
          LET r == AddMetrics(session, in)
          IN /\ session' = r.s
             /\ last_result' = r.result
             /\ pushed_hr' = Logged(pushed_hr, in.heart_rate)
             /\ pushed_br' = Logged(pushed_br, in.breathing_rate)
    /\ calls' = calls + 1
    /\ UNCHANGED call_log
    /\ UNCHANGED <<chainVars, gazeVars, registryVars, pipelineVars>>

ScorerNext == AddMetricsCall

SpecScorer == ScorerInit /\ [][ScorerNext]_vars

-----------------------------------------------------------------------------
(* Properties of the scorer, checked under SpecScorer *)

\* the baseline a channel must have after the samples logged in 'log'
BaselineOf(log) ==
    IF log.n < BaselineSamples THEN None ELSE Some(Mean(log.first))

\* C1: for each channel (heart rate, breathing rate) the baseline is None
\* while fewer than 5 non-None samples of the channel have been pushed, and
\* from the call that pushes the 5th on it is the mean of exactly the first 5
\* samples pushed, whatever is pushed or evicted later.
C1_BaselineSetOnce ==
    /\ session.baseline_heart_rate = BaselineOf(pushed_hr)
    /\ session.baseline_breathing_rate = BaselineOf(pushed_br)

\* C1 witness: the heart-rate history has evicted the first sample pushed, a
\* sample that differs from the one now at the head of the history, and the
\* baseline is set.
C1_Witness ==
    /\ pushed_hr.n > RateHistoryCap
    /\ session.baseline_heart_rate # None
    /\ pushed_hr.first[1] # Head(session.heart_rates)
    /\ pushed_br.n >= BaselineSamples

ScoreInRange(x) == 0 <= x /\ x <= 100

\* C2: every add_metrics call returns a Metric whose focus_score,
\* engagement_score and thinking_intensity each lie in [0,100].
C2_ScoresInRange ==
    calls > 0 =>
        /\ last_result.kind = "return"
        /\ ScoreInRange(last_result.value.focus_score)
        /\ ScoreInRange(last_result.value.engagement_score)
        /\ ScoreInRange(last_result.value.thinking_intensity)

\* C3: every add_metrics call appends one Metric and increments frame_count,
\* so frame_count, and the total_frames of the aggregate, equal the number of
\* add_metrics calls made.
C3_TotalFramesCountsCalls ==
    /\ session.frame_count = calls
    /\ calls > 0 => /\ GetAggregatedMetrics(session) # None
                    /\ Val(GetAggregatedMetrics(session)).total_frames = calls

\* C13: get_aggregated_metrics returns None exactly while no Metric has been
\* recorded: it is None on a new session, a call of add_metrics that returns
\* a Metric makes it non-None, a call that records none leaves it as it was,
\* and once non-None it stays so.
C13_AggregateNoneIffNoMetric ==
    /\ (calls = 0 => GetAggregatedMetrics(session) = None)
    /\ [][/\ last_result'.kind = "return" => GetAggregatedMetrics(session') # None
          /\ last_result'.kind = "raise" =>
                 (GetAggregatedMetrics(session') = None
                      <=> GetAggregatedMetrics(session) = None)
          /\ GetAggregatedMetrics(session) # None => GetAggregatedMetrics(session') # None
       ]_vars

\* C13 witness: a call recorded a Metric without a heart rate, a later call
\* recorded none, and the aggregate is not None.
C13_Witness ==
    /\ calls >= 2
    /\ last_result.kind = "raise"
    /\ Len(session.metrics_history) = 1
    /\ session.metrics_history[1].heart_rate = None
    /\ GetAggregatedMetrics(session) # None

\* the number of Metrics in metrics_history that carry a rate in 'field'
MetricsWithRate(s, field) ==
    Cardinality({i \in 1..Len(s.metrics_history) : s.metrics_history[i][field] # None})

\* C25: a call of add_metrics that fails while the scores are computed
\* leaves the session (rate and eye histories, baselines, metrics_history,
\* frame_count) exactly as it was before the call, and so the heart-rate and
\* breathing-rate histories never hold more samples than there are recorded
\* Metrics carrying that rate.
C25_AddMetricsAllOrNothing ==
    /\ [][last_result'.kind = "raise" => session' = session]_vars
    /\ [](/\ Len(session.heart_rates) <= MetricsWithRate(session, "heart_rate")
          /\ Len(session.breathing_rates) <= MetricsWithRate(session, "breathing_rate"))

-----------------------------------------------------------------------------
(* SpecHistory: one VitalsSession driven past the capacity of its            *)
(* 100-entry histories, every call and its outcome logged                    *)

\* The first MaxHistoryVaried calls take any input of ScorerInputs; the calls
\* after them, up to MaxHistoryCalls, repeat RecordingInput, an input that
\* add_metrics records (it carries one rate only).
MaxHistoryVaried == 2
MaxHistoryCalls == 102

RecordingInput == MetricsInput(Some(80), None, "away", Some(15), 50, 10)

HistoryInputsAt(n) == IF n < MaxHistoryVaried THEN ScorerInputs ELSE {RecordingInput}

HistoryInit ==
    /\ session = NewSession
    /\ calls = 0
    /\ pushed_hr = EmptyLog
    /\ pushed_br = EmptyLog
    /\ last_result = NoResult
    /\ call_log = <<>>
    /\ IdleChain /\ IdleGaze /\ IdleRegistry /\ IdlePipeline

\* one call session.add_metrics(...), logged
AddMetricsLogged ==
    /\ calls < MaxHistoryCalls
    /\ \E in \in HistoryInputsAt(calls) :
          LET r == AddMetrics(session, in)
          IN /\ session' = r.s
             /\ last_result' = r.result
             /\ pushed_hr' = Logged(pushed_hr, in.heart_rate)
             /\ pushed_br' = Logged(pushed_br, in.breathing_rate)
             /\ call_log' = Append(call_log, [in |-> in, result |-> r.result])
    /\ calls' = calls + 1
    /\ UNCHANGED <<chainVars, gazeVars, registryVars, pipelineVars>>

HistoryNext == AddMetricsLogged

SpecHistory == HistoryInit /\ [][HistoryNext]_vars

-----------------------------------------------------------------------------
(* Properties of the scorer's histories, checked under SpecHistory *)

\* the Metrics add_metrics returned, in the order of the calls
RECURSIVE ReturnedMetrics(_)
ReturnedMetrics(log) ==
    IF log = <<>> THEN <<>>
    ELSE (IF Head(log).result.kind = "return" THEN <<Head(log).result.value>> ELSE <<>>)
         \o ReturnedMetrics(Tail(log))

\* two fractions denote the same number
SameFraction(a, b) == a.num * b.den = b.num * a.den

\* an optional fraction equals the mean of xs, None standing for no sample
IsMeanOf(o, xs) ==
    IF xs = <<>> THEN o = None ELSE o # None /\ SameFraction(Val(o), Mean(xs))

\* an optional fraction equals the population variance of xs, None standing
\* for fewer than two samples
IsVarianceOf(o, xs) ==
    IF Len(xs) < 2 THEN o = None
    ELSE o # None /\ SameFraction(Val(o), [num |-> VarTimesN2(xs), den |-> Len(xs) * Len(xs)])

\* C14: with any number of Metrics recorded, the aggregate's three average
\* scores are the means over every Metric add_metrics returned in the
\* session, total_frames counts those same Metrics, and the mean and
\* population standard deviation of heart_rate and of breathing_rate are
\* taken over the non-None samples of every one of them.
C14_AggregateOverAllMetrics ==
    LET all == ReturnedMetrics(call_log)
        agg == GetAggregatedMetrics(session)
    IN (all # <<>>) =>
          /\ agg # None
          /\ Val(agg).total_frames = Len(all)
          /\ SameFraction(Val(agg).average_focus_score, Mean(Column(all, "focus_score")))
          /\ SameFraction(Val(agg).average_engagement_score, Mean(Column(all, "engagement_score")))
          /\ SameFraction(Val(agg).average_thinking_intensity, Mean(Column(all, "thinking_intensity")))
          /\ IsMeanOf(Val(agg).average_heart_rate, PresentColumn(all, "heart_rate"))
          /\ IsMeanOf(Val(agg).average_breathing_rate, PresentColumn(all, "breathing_rate"))
          /\ IsVarianceOf(Val(agg).heart_rate_variance, PresentColumn(all, "heart_rate"))
          /\ IsVarianceOf(Val(agg).breathing_rate_variance, PresentColumn(all, "breathing_rate"))

-----------------------------------------------------------------------------
(* The fallback chain: process_frame_with_custom_metrics *)

VendorTimeoutTicks == 50
\* subprocess.run(..., timeout=5), in seconds
VendorTimeoutSeconds == 5
SimulatedHeartRateMin == 65
SimulatedHeartRateMax == 85
SimulatedBreathingRateMin == 14
SimulatedBreathingRateMax == 18

\* a tier that produced nothing: control falls through to the next tier
FallThrough == [kind |-> "next"]

\* The record CustomMetricsProcessor.process_frame returns
\* (custom_metrics_processor.py lines 81-114), without the fields the service
\* never reads (signal_quality, overall_quality, frame_count, timestamp).
CustomVitals(hr, br, gaze, blink, stab, dur) ==
    [ heart_rate |-> hr, breathing_rate |-> br, gaze_direction |-> gaze,
      blink_rate |-> blink, eye_movement_stability |-> stab,
      focus_duration |-> dur, source |-> "custom" ]

\* dict.get(key): None when the key is absent (a JSON null is None as well)
DictGet(d, key) == IF key \in DOMAIN d THEN d[key] ELSE None

\* Python truthiness of an optional number
Truthy(o) == o # None /\ Val(o) # 0

\* json.loads(result.stdout.strip()): JSONDecodeError on malformed text
JsonLoads(stdout) ==
    IF stdout.form = "invalid" THEN Raise("JSONDecodeError") ELSE Ret(stdout)

\* lines 439-453: the combiner tier.  An exception of the combiner is caught
\* at line 450; a record with neither rate falls through.
TryCustomPropagate(in) ==
    IF ~in.has_processor THEN FallThrough
    ELSE IF in.combiner.kind = "raise" THEN in.combiner
    ELSE LET custom_vitals == in.combiner.value
         IN IF custom_vitals.heart_rate # None \/ custom_vitals.breathing_rate # None
            THEN Ret([custom_vitals EXCEPT !.source = "custom"])
            ELSE FallThrough

TryCustom(in) ==
    IF ~in.has_processor THEN FallThrough
    ELSE IF in.combiner.kind = "raise" THEN FallThrough
    ELSE LET custom_vitals == in.combiner.value
         IN IF custom_vitals.heart_rate # None \/ custom_vitals.breathing_rate # None
            THEN Ret([custom_vitals EXCEPT !.source = "custom"])
            ELSE FallThrough

\* lines 474-523: presage_vitals after the vendor subprocess tier.
\* subprocess.run ends by TimeoutExpired after 5 s (caught at line 509), by
\* another exception (caught at line 512) or with a return code; .get on a
\* JSON value that is not an object raises AttributeError, caught at line 512.
TryPresage(in) ==
    IF ~in.wrapper_found THEN None
    ELSE IF in.vendor.kind = "timeout" THEN None
    ELSE IF in.vendor.kind = "error" THEN None
    ELSE IF in.vendor.returncode # 0 THEN None
    ELSE LET parsed == JsonLoads(in.vendor.stdout)
         IN IF parsed.kind = "raise" THEN None
            ELSE IF parsed.value.form # "object" THEN None
            ELSE Some([ heart_rate     |-> DictGet(parsed.value.obj, "heart_rate"),
                        breathing_rate |-> DictGet(parsed.value.obj, "breathing_rate"),
                        source         |-> "presage" ])

\* line 526: the test that lets the vendor record be returned
PresageUsableNotNone(presage_vitals) ==
    /\ presage_vitals # None
    /\ Val(presage_vitals).heart_rate # None
    /\ Val(presage_vitals).breathing_rate # None

PresageUsable(presage_vitals) ==
    /\ presage_vitals # None
    /\ Truthy(Val(presage_vitals).heart_rate)
    /\ Truthy(Val(presage_vitals).breathing_rate)

\* lines 535-539: the simulated record, from the two draws of random.uniform
SimulatedVitals(rand_hr, rand_br) ==
    [ heart_rate |-> Some(rand_hr), breathing_rate |-> Some(rand_br),
      source |-> "simulated" ]

\* process_frame_with_custom_metrics
ProcessFrameWithCustomMetrics(in) ==
    LET custom == TryCustom(in)
        presage_vitals == TryPresage(in)
    IN IF custom.kind # "next" THEN custom
       ELSE IF PresageUsable(presage_vitals) THEN Ret(Val(presage_vitals))
       ELSE Ret(SimulatedVitals(in.rand_hr, in.rand_br))

-----------------------------------------------------------------------------
(* SpecChain: one run of the chain for each behaviour of its collaborators *)

CombinerOutcomes ==
    {Raise("cv2.error")} \cup
    { Ret(CustomVitals(hr, br, "screen", Some(15), 9000, 12)) :
          hr \in {None, Some(70)}, br \in {None, Some(15)} }

JsonNumbers == {None, Some(0), Some(70)}

JsonObjects ==
    UNION { [keys -> JsonNumbers] : keys \in SUBSET {"heart_rate", "breathing_rate"} }

VendorStdouts ==
    {[form |-> "invalid"], [form |-> "array"]} \cup
    { [form |-> "object", obj |-> o] : o \in JsonObjects }

VendorOutcomes ==
    {[kind |-> "timeout", after |-> VendorTimeoutTicks], [kind |-> "error"]} \cup
    { [kind |-> "exit", returncode |-> 1, stdout |-> [form |-> "invalid"]] } \cup
    { [kind |-> "exit", returncode |-> 0, stdout |-> out] : out \in VendorStdouts }

RandomHeartRates == {SimulatedHeartRateMin, 75, SimulatedHeartRateMax}
RandomBreathingRates == {SimulatedBreathingRateMin, SimulatedBreathingRateMax}

ChainInputs ==
    [ phase : {"run"}, has_processor : BOOLEAN, combiner : CombinerOutcomes,
      wrapper_found : BOOLEAN, vendor : VendorOutcomes,
      rand_hr : RandomHeartRates, rand_br : RandomBreathingRates ]

ChainInit ==
    /\ chain_in \in ChainInputs
    /\ chain_out = NoResult
    /\ IdleScorer /\ IdleGaze /\ IdleRegistry /\ IdlePipeline

\* one call process_frame_with_custom_metrics(frame, custom_processor, api_key)
RunChain ==
    /\ chain_out = NoResult
    /\ chain_out' = ProcessFrameWithCustomMetrics(chain_in)
    /\ UNCHANGED <<chain_in, scorerVars, gazeVars, registryVars, pipelineVars>>

ChainNext == RunChain

SpecChain == ChainInit /\ [][ChainNext]_vars

-----------------------------------------------------------------------------
(* Properties of the fallback chain, checked under SpecChain *)

ChainDone == chain_out # NoResult

\* the combiner tier is accepted: it ran, returned, and has a rate
CombinerAccepted(in) ==
    /\ in.has_processor
    /\ in.combiner.kind = "return"
    /\ \/ in.combiner.value.heart_rate # None
       \/ in.combiner.value.breathing_rate # None

\* the vendor subprocess exited 0 and printed a JSON object
VendorPrintedObject(in) ==
    /\ in.wrapper_found
    /\ in.vendor.kind = "exit"
    /\ in.vendor.returncode = 0
    /\ in.vendor.stdout.form = "object"

\* both fields are present in the vendor's JSON object
VendorBothPresent(in) ==
    /\ VendorPrintedObject(in)
    /\ {"heart_rate", "breathing_rate"} \subseteq DOMAIN in.vendor.stdout.obj

\* both fields are present with a truthy value (not null, not zero)
VendorBothTruthy(in) ==
    /\ VendorBothPresent(in)
    /\ Truthy(in.vendor.stdout.obj["heart_rate"])
    /\ Truthy(in.vendor.stdout.obj["breathing_rate"])

\* the record tier 'tier' hands back for the collaborators' behaviour 'in'
TierRecord(tier, in) ==
    IF tier = "custom" THEN in.combiner.value
    ELSE IF tier = "presage"
    THEN [ heart_rate |-> in.vendor.stdout.obj["heart_rate"],
           breathing_rate |-> in.vendor.stdout.obj["breathing_rate"],
           source |-> "presage" ]
    ELSE [ heart_rate |-> Some(in.rand_hr), breathing_rate |-> Some(in.rand_br),
           source |-> "simulated" ]

\* C7 as stated: the chain returns the record of the first tier, in the
\* order combiner, vendor, simulated, whose acceptance condition holds, the
\* vendor record being accepted iff the subprocess exited 0 with JSON in
\* which both heart_rate and breathing_rate are present; the source tag names
\* the tier.
C7_FirstAcceptedTier_Present ==
    ChainDone =>
        LET tier == IF CombinerAccepted(chain_in) THEN "custom"
                    ELSE IF VendorBothPresent(chain_in) THEN "presage"
                    ELSE "simulated"
        IN /\ chain_out.kind = "return"
           /\ chain_out.value.source = tier
           /\ chain_out.value = TierRecord(tier, chain_in)

\* C7 amended: as stated, except that the vendor record is accepted iff the
\* subprocess exited 0 with a JSON object in which both heart_rate and
\* breathing_rate are present with a truthy value (not null, not zero).
C7_FirstAcceptedTier ==
    ChainDone =>
        LET tier == IF CombinerAccepted(chain_in) THEN "custom"
                    ELSE IF VendorBothTruthy(chain_in) THEN "presage"
                    ELSE "simulated"
        IN /\ chain_out.kind = "return"
           /\ chain_out.value.source = tier
           /\ chain_out.value = TierRecord(tier, chain_in)

\* C7 witness: the combiner returned a record without rates and the vendor
\* record, with both rates, was the one returned.
C7_Witness ==
    /\ ChainDone
    /\ chain_in.has_processor
    /\ chain_in.combiner.kind = "return"
    /\ ~CombinerAccepted(chain_in)
    /\ VendorBothTruthy(chain_in)
    /\ chain_out.value.source = "presage"

\* the combiner tier failed: absent, raised, or returned no rate
CombinerFailed(in) == ~CombinerAccepted(in)

\* the vendor tier failed: no wrapper, timeout, other error, non-zero exit
\* or output that is not a JSON object
VendorFailed(in) == ~VendorPrintedObject(in)

-----------------------------------------------------------------------------
(* The two EyeTracker variants: gaze classification and focus bookkeeping *)
(* Offsets are counted in hundredths of the normalising length.            *)

LandmarkGazeThreshold == 15
CoarseGazeThreshold == 20
GazeHistoryCap == 30

\* EyeTracker.__init__ of either variant, constructed at clock reading t
NewTracker(variant, t) ==
    [ variant          |-> variant,
      gaze_history     |-> <<>>,
      focus_start_time |-> None,
      total_focus_time |-> 0,
      last_update_time |-> t ]

\* the classification with the thresholds themselves counted as inside
LandmarkGazeDirectionInclusive(h, v, eye_distance_zero) ==
    IF eye_distance_zero THEN "unknown"
    ELSE IF h <= LandmarkGazeThreshold /\ v <= LandmarkGazeThreshold THEN "screen"
    ELSE IF h >= LandmarkGazeThreshold * 2 \/ v >= LandmarkGazeThreshold * 2 THEN "away"
    ELSE "unknown"

\* eye_tracker.py, _calculate_gaze_direction: h and v are the absolute
\* offsets of the eye midpoint from the nose tip over the inter-eye distance
LandmarkGazeDirection(h, v, eye_distance_zero) ==
    IF eye_distance_zero THEN "unknown"
    ELSE IF h < LandmarkGazeThreshold /\ v < LandmarkGazeThreshold THEN "screen"
    ELSE IF h > LandmarkGazeThreshold * 2 \/ v > LandmarkGazeThreshold * 2 THEN "away"
    ELSE "unknown"

\* eye_tracker_simple.py, _calculate_gaze_direction: h and v are the absolute
\* offsets of the face-box centre from the frame centre over the frame size
CoarseGazeDirection(h, v) ==
    IF h < CoarseGazeThreshold /\ v < CoarseGazeThreshold THEN "screen"
    ELSE IF h > CoarseGazeThreshold * 2 \/ v > CoarseGazeThreshold * 2 THEN "away"
    ELSE "unknown"

\* what process_frame hands back: the tracker afterwards, the dict returned
\* and the time_delta the call computed (0 when it computed none)
TrackerStep(tr, metrics, time_delta) ==
    [tr |-> tr, metrics |-> metrics, time_delta |-> time_delta]

EyeMetrics(gaze, focus_duration, face_detected) ==
    [ gaze_direction |-> gaze, focus_duration |-> focus_duration,
      face_detected |-> face_detected ]

\* eye_tracker.py, EyeTracker.process_frame, lines 271-338 (gaze and focus
\* time); current_time is the reading of time.time() at line 313
LandmarkProcessFrame(tr, frame, timestamp, current_time) ==
    IF ~frame.face
    THEN TrackerStep(tr, EyeMetrics("unknown", tr.total_focus_time, FALSE), 0)
    ELSE
    LET gaze_direction == LandmarkGazeDirection(frame.h, frame.v, frame.eye_distance_zero)
        time_delta == current_time - tr.last_update_time
        tr1 == [tr EXCEPT !.gaze_history = DequeAppend(@, gaze_direction, GazeHistoryCap),
                          !.last_update_time = current_time]
        tr2 == IF gaze_direction = "screen"
               THEN IF tr1.focus_start_time = None
                    THEN [tr1 EXCEPT !.focus_start_time = Some(timestamp)]
                    ELSE [tr1 EXCEPT !.total_focus_time = @ + time_delta]
               ELSE [tr1 EXCEPT !.focus_start_time = None]
    IN TrackerStep(tr2, EyeMetrics(gaze_direction, tr2.total_focus_time, TRUE), time_delta)

\* eye_tracker_simple.py, EyeTracker.process_frame, lines 109-153;
\* current_time is the reading of time.time() at line 131
CoarseProcessFrame(tr, frame, timestamp, current_time) ==
    IF ~frame.face
    THEN TrackerStep(tr, EyeMetrics("unknown", tr.total_focus_time, FALSE), 0)
    ELSE
    LET gaze_direction == CoarseGazeDirection(frame.h, frame.v)
        time_delta == current_time - tr.last_update_time
        tr1 == [tr EXCEPT !.gaze_history = DequeAppend(@, gaze_direction, GazeHistoryCap),
                          !.last_update_time = current_time]
        tr2 == IF gaze_direction = "screen"
               THEN IF tr1.focus_start_time = None
                    THEN [tr1 EXCEPT !.focus_start_time = Some(timestamp)]
                    ELSE [tr1 EXCEPT !.total_focus_time = @ + time_delta]
               ELSE [tr1 EXCEPT !.focus_start_time = None]
    IN TrackerStep(tr2, EyeMetrics(gaze_direction, tr2.total_focus_time, TRUE), time_delta)

-----------------------------------------------------------------------------
(* SpecGaze: one tracker of either variant fed a sequence of frames *)

MaxFrames == 5
MaxDelta == 2

NoFaceFrame == [face |-> FALSE, h |-> 0, v |-> 0, eye_distance_zero |-> FALSE]
FaceFrame(h, v, z) == [face |-> TRUE, h |-> h, v |-> v, eye_distance_zero |-> z]

\* frames with the face centred, at and beyond each threshold of each variant
GazeFrames ==
    { NoFaceFrame, FaceFrame(0, 0, TRUE),
      FaceFrame(0, 0, FALSE), FaceFrame(14, 0, FALSE), FaceFrame(15, 0, FALSE),
      FaceFrame(0, 19, FALSE), FaceFrame(20, 20, FALSE), FaceFrame(30, 0, FALSE),
      FaceFrame(0, 31, FALSE), FaceFrame(40, 0, FALSE), FaceFrame(41, 41, FALSE) }

EmptyGazeLog == [n |-> 0, last |-> <<>>]

\* keep the latest two processed frames
GazeLogged(log, frame, step) ==
    [ n    |-> log.n + 1,
      last |-> DequeAppend(log.last,
                  [ face |-> frame.face, gaze |-> step.metrics.gaze_direction,
                    time_delta |-> step.time_delta,
                    focus_duration |-> step.metrics.focus_duration ], 2) ]

GazeInit ==
    /\ tracker \in {NewTracker("landmark", 0), NewTracker("coarse", 0)}
    /\ now = 0
    /\ gaze_log = EmptyGazeLog
    /\ IdleScorer /\ IdleChain /\ IdleRegistry /\ IdlePipeline

\* the combiner hands a frame to the landmark tracker, dt ticks after the
\* previous frame
ProcessFrameLandmark ==
    /\ tracker.variant = "landmark"
    /\ gaze_log.n < MaxFrames
    /\ \E dt \in 1..MaxDelta, frame \in GazeFrames :
          LET step == LandmarkProcessFrame(tracker, frame, now + dt, now + dt)
          IN /\ now' = now + dt
             /\ tracker' = step.tr
             /\ gaze_log' = GazeLogged(gaze_log, frame, step)
    /\ UNCHANGED <<scorerVars, chainVars, registryVars, pipelineVars>>

\* the combiner hands a frame to the coarse tracker
ProcessFrameCoarse ==
    /\ tracker.variant = "coarse"
    /\ gaze_log.n < MaxFrames
    /\ \E dt \in 1..MaxDelta, frame \in GazeFrames :
          LET step == CoarseProcessFrame(tracker, frame, now + dt, now + dt)
          IN /\ now' = now + dt
             /\ tracker' = step.tr
             /\ gaze_log' = GazeLogged(gaze_log, frame, step)
    /\ UNCHANGED <<scorerVars, chainVars, registryVars, pipelineVars>>

GazeNext == ProcessFrameLandmark \/ ProcessFrameCoarse

SpecGaze == GazeInit /\ [][GazeNext]_vars

-----------------------------------------------------------------------------
(* Properties of the trackers, checked under SpecGaze *)

\* C9: in both variants, on the first screen-classified frame after a
\* non-screen frame the reported focus_duration is at most that frame's time
\* delta: it does not carry the total accumulated before the interruption.
C9_FocusResetsAfterInterruption ==
    (/\ Len(gaze_log.last) = 2
     /\ gaze_log.last[1].face /\ gaze_log.last[1].gaze # "screen"
     /\ gaze_log.last[2].face /\ gaze_log.last[2].gaze = "screen")
    => gaze_log.last[2].focus_duration <= gaze_log.last[2].time_delta

-----------------------------------------------------------------------------
(* The session registry and the three request handlers of vitals_service.py *)
(* Flask serves each request on its own worker thread.  A handler is a      *)
(* sequence of steps; the body of a 'with session_lock' block is entered    *)
(* by an acquire step and the lock is released by the step that leaves it.  *)
(* The readings the combiner takes from an image are an input of the frame. *)

NumThreads == 2
MaxRequests == 3

Threads == 1..NumThreads
NoThread == 0
NoHandle == 0

\* CustomMetricsProcessor.__init__ and reset(): the counters of the processor
\* and of its two trackers' buffers
NewProcessor == [frame_count |-> 0, monitor_frames |-> 0, tracker_frames |-> 0]

\* VitalsSession.__init__, with the processor built or not (lines 88-95)
NewSessionObject(session_id, api_key, processor) ==
    [ session_id |-> session_id, api_key |-> api_key,
      scorer |-> NewSession, custom_processor |-> processor ]

NoBody == [kind |-> "none"]
ErrorBody(msg) == [kind |-> "error", error |-> msg]
MessageBody(msg) == [kind |-> "message", message |-> msg]
MetricBody(metric) == [kind |-> "metrics", metrics |-> metric]
AggregateBody(agg) == [kind |-> "aggregated_metrics", aggregated_metrics |-> agg]

\* a worker thread: the request's JSON fields, the handler's locals, its
\* position and, once it has returned, the response
IdleRequest ==
    [ op |-> "idle", pc |-> "idle", session_id |-> None,
      data_api_key |-> None, api_key |-> None,
      frame |-> "none", handle |-> NoHandle, chain |-> NoResult, waited |-> 0,
      vitals |-> None,
      aggregated |-> None, status |-> 0, body |-> NoBody ]

NewRequest(op, session_id, data_api_key, api_key, frame) ==
    [IdleRequest EXCEPT !.op = op, !.pc = "arrived", !.session_id = session_id,
                        !.data_api_key = data_api_key, !.api_key = api_key,
                        !.frame = frame]

\* return jsonify(body), status: the handler's locals go out of scope
Respond(r, status, body) ==
    [r EXCEPT !.pc = "done", !.status = status, !.body = body,
              !.chain = NoResult, !.waited = 0, !.vitals = None, !.aggregated = None]

RequestIds == {None, Some("s1")}
RequestKeys == {None, Some("k")}
\* os.getenv('PRESAGE_API_KEY', '') at line 52: not set, or a key
ConfiguredKeys == {None, Some("k")}
\* the 'frame' field: absent, not base64, bytes that are no image, an image
RequestFrames == {"missing", "garbage", "notimage", "image"}

\* the vendor subprocess printing both rates
VendorBothRates ==
    [ kind |-> "exit", returncode |-> 0,
      stdout |-> [form |-> "object",
                  obj |-> [k \in {"heart_rate", "breathing_rate"} |->
                              IF k = "heart_rate" THEN Some(70) ELSE Some(15)]] ]

ChainEnv(combiner, wrapper_found) ==
    [ phase |-> "run", has_processor |-> TRUE, combiner |-> combiner,
      wrapper_found |-> wrapper_found, vendor |-> VendorBothRates,
      rand_hr |-> 70, rand_br |-> 15 ]

\* what the collaborators of the chain do for one frame: the combiner fails
\* and no wrapper is installed, the combiner reads no rate and the vendor
\* answers, the combiner reads the heart rate only, the combiner reads both
RegistryChainEnvs ==
    { ChainEnv(Raise("cv2.error"), FALSE),
      ChainEnv(Ret(CustomVitals(None, None, "unknown", None, 0, 0)), TRUE),
      ChainEnv(Ret(CustomVitals(Some(70), None, "screen", None, 9000, 12)), FALSE),
      ChainEnv(Ret(CustomVitals(Some(70), Some(15), "screen", Some(15), 9000, 12)), FALSE) }

\* vitals.get(key, default)
VitalsGet(vitals, key, default) == IF key \in DOMAIN vitals THEN vitals[key] ELSE default

CanBegin(t) == req[t].pc \in {"idle", "done"} /\ issued < MaxRequests

\* the frame thread t is inside the mutable state of its session: the
\* processor has begun the frame (line 72 on) and add_metrics has not returned
InFlight(t) ==
    /\ req[t].op = "frame"
    /\ req[t].pc \in {"combine", "vendor", "score"}
    /\ heap[req[t].handle].custom_processor # None

Touch(h) == IF h \in closed THEN touched_closed \cup {h} ELSE touched_closed

RegistryInit ==
    /\ PRESAGE_API_KEY \in ConfiguredKeys
    /\ sessions = <<>>
    /\ session_lock = NoThread
    /\ heap = <<>>
    /\ closed = {}
    /\ req = [t \in Threads |-> IdleRequest]
    /\ issued = 0
    /\ touched_closed = {}
    /\ IdleScorer /\ IdleChain /\ IdleGaze /\ IdlePipeline

\* ---- POST /api/vitals/session/start ----

\* a start request arrives; lines 557-565 validate it, the key being
\* data.get('api_key') or PRESAGE_API_KEY
BeginStart(t) ==
    /\ CanBegin(t)
    /\ \E id \in RequestIds, key \in RequestKeys :
          LET api_key == IF key # None THEN key ELSE PRESAGE_API_KEY
              r == NewRequest("start", id, key, api_key, "none")
          IN req' = [req EXCEPT ![t] =
                       IF id = None THEN Respond(r, 400, ErrorBody("session_id is required"))
                       ELSE IF api_key = None THEN Respond(r, 400, ErrorBody("API key is required"))
                       ELSE [r EXCEPT !.pc = "acquire"]]
    /\ issued' = issued + 1
    /\ UNCHANGED <<sessions, session_lock, heap, closed, touched_closed>>
    /\ UNCHANGED <<PRESAGE_API_KEY, scorerVars, chainVars, gazeVars, pipelineVars>>

\* line 567: with session_lock
StartAcquire(t) ==
    /\ req[t].op = "start" /\ req[t].pc = "acquire"
    /\ session_lock = NoThread
    /\ session_lock' = t
    /\ req' = [req EXCEPT ![t].pc = "critical"]
    /\ UNCHANGED <<sessions, heap, closed, issued, touched_closed>>
    /\ UNCHANGED <<PRESAGE_API_KEY, scorerVars, chainVars, gazeVars, pipelineVars>>

\* lines 568-583, as written but replacing the entry of an existing id
StartCriticalReplace(t) ==
    /\ req[t].op = "start" /\ req[t].pc = "critical"
    /\ session_lock = t
    /\ LET id == Val(req[t].session_id)
       IN \E processor \in {None, Some(NewProcessor)} :
             /\ heap' = Append(heap, NewSessionObject(id, Val(req[t].api_key), processor))
             /\ sessions' = [k \in DOMAIN sessions \cup {id} |->
                                IF k = id THEN Len(heap) + 1 ELSE sessions[k]]
             /\ req' = [req EXCEPT ![t] =
                          Respond(@, 200, MessageBody(IF id \in DOMAIN sessions
                                                      THEN "Session already exists"
                                                      ELSE "Session started"))]
    /\ session_lock' = NoThread
    /\ UNCHANGED <<closed, issued, touched_closed>>
    /\ UNCHANGED <<PRESAGE_API_KEY, scorerVars, chainVars, gazeVars, pipelineVars>>

\* lines 568-583: the body of the lock block and the response
StartCritical(t) ==
    /\ req[t].op = "start" /\ req[t].pc = "critical"
    /\ session_lock = t
    /\ LET id == Val(req[t].session_id)
       IN IF id \in DOMAIN sessions
          THEN /\ req' = [req EXCEPT ![t] = Respond(@, 200, MessageBody("Session already exists"))]
               /\ UNCHANGED <<sessions, heap>>
          ELSE \E processor \in {None, Some(NewProcessor)} :
                 /\ heap' = Append(heap, NewSessionObject(id, Val(req[t].api_key), processor))
                 /\ sessions' = [k \in DOMAIN sessions \cup {id} |->
                                    IF k = id THEN Len(heap) + 1 ELSE sessions[k]]
                 /\ req' = [req EXCEPT ![t] = Respond(@, 200, MessageBody("Session started"))]
    /\ session_lock' = NoThread
    /\ UNCHANGED <<closed, issued, touched_closed>>
    /\ UNCHANGED <<PRESAGE_API_KEY, scorerVars, chainVars, gazeVars, pipelineVars>>

\* ---- POST /api/vitals/frame ----

\* a frame request arrives; lines 592-598 validate it
BeginFrame(t) ==
    /\ CanBegin(t)
    /\ \E id \in RequestIds, frame \in RequestFrames :
          LET r == NewRequest("frame", id, None, None, frame)
          IN req' = [req EXCEPT ![t] =
                       IF id = None \/ frame = "missing"
                       THEN Respond(r, 400, ErrorBody("session_id and frame are required"))
                       ELSE [r EXCEPT !.pc = "acquire"]]
    /\ issued' = issued + 1
    /\ UNCHANGED <<sessions, session_lock, heap, closed, touched_closed>>
    /\ UNCHANGED <<PRESAGE_API_KEY, scorerVars, chainVars, gazeVars, pipelineVars>>

\* line 600: with session_lock
FrameAcquire(t) ==
    /\ req[t].op = "frame" /\ req[t].pc = "acquire"
    /\ session_lock = NoThread
    /\ session_lock' = t
    /\ req' = [req EXCEPT ![t].pc = "lookup"]
    /\ UNCHANGED <<sessions, heap, closed, issued, touched_closed>>
    /\ UNCHANGED <<PRESAGE_API_KEY, scorerVars, chainVars, gazeVars, pipelineVars>>

\* the lookup with the rest of the handler kept inside the lock block
FrameLookupKeepLock(t) ==
    /\ req[t].op = "frame" /\ req[t].pc = "lookup"
    /\ session_lock = t
    /\ LET id == Val(req[t].session_id)
       IN /\ req' = [req EXCEPT ![t] =
                       IF id \notin DOMAIN sessions
                       THEN Respond(@, 404, ErrorBody("Session not found"))
                       ELSE [@ EXCEPT !.pc = "decode", !.handle = sessions[id]]]
          /\ session_lock' = IF id \notin DOMAIN sessions THEN NoThread ELSE t
    /\ UNCHANGED <<sessions, heap, closed, issued, touched_closed>>
    /\ UNCHANGED <<PRESAGE_API_KEY, scorerVars, chainVars, gazeVars, pipelineVars>>

\* lines 601-605: the lookup; the lock is released on leaving the block
FrameLookup(t) ==
    /\ req[t].op = "frame" /\ req[t].pc = "lookup"
    /\ session_lock = t
    /\ LET id == Val(req[t].session_id)
       IN req' = [req EXCEPT ![t] =
                    IF id \notin DOMAIN sessions
                    THEN Respond(@, 404, ErrorBody("Session not found"))
                    ELSE [@ EXCEPT !.pc = "decode", !.handle = sessions[id]]]
    /\ session_lock' = NoThread
    /\ UNCHANGED <<sessions, heap, closed, issued, touched_closed>>
    /\ UNCHANGED <<PRESAGE_API_KEY, scorerVars, chainVars, gazeVars, pipelineVars>>

\* lines 610-629 without the test of line 623: bytes that are no image go on
\* into the chain
FrameDecodeLenient(t) ==
    /\ req[t].op = "frame" /\ req[t].pc = "decode"
    /\ req' = [req EXCEPT ![t] =
                 IF req[t].frame = "garbage"
                 THEN Respond(@, 400, ErrorBody("Invalid frame data"))
                 ELSE [@ EXCEPT !.pc = IF heap[req[t].handle].custom_processor # None
                                       THEN "monitor" ELSE "combine"]]
    /\ UNCHANGED <<sessions, session_lock, heap, closed, issued, touched_closed>>
    /\ UNCHANGED <<PRESAGE_API_KEY, scorerVars, chainVars, gazeVars, pipelineVars>>

\* lines 610-625: base64 and image decoding; then line 629 enters the chain,
\* through the combiner when the session has a processor
FrameDecode(t) ==
    /\ req[t].op = "frame" /\ req[t].pc = "decode"
    /\ req' = [req EXCEPT ![t] =
                 IF req[t].frame = "garbage"
                 THEN Respond(@, 400, ErrorBody("Invalid frame data"))
                 ELSE IF req[t].frame = "notimage"
                 THEN Respond(@, 400, ErrorBody("Invalid frame data: cv2.imdecode returned None"))
                 ELSE [@ EXCEPT !.pc = IF heap[req[t].handle].custom_processor # None
                                       THEN "monitor" ELSE "combine"]]
    /\ UNCHANGED <<sessions, session_lock, heap, closed, issued, touched_closed>>
    /\ UNCHANGED <<PRESAGE_API_KEY, scorerVars, chainVars, gazeVars, pipelineVars>>

\* custom_metrics_processor.py lines 72-75: the processor counts the frame
\* and the heart-rate monitor processes it
FrameMonitor(t) ==
    /\ req[t].op = "frame" /\ req[t].pc = "monitor"
    /\ LET h == req[t].handle
           p == Val(heap[h].custom_processor)
       IN /\ heap' = [heap EXCEPT ![h].custom_processor =
                        Some([p EXCEPT !.frame_count = @ + 1, !.monitor_frames = @ + 1])]
          /\ touched_closed' = Touch(h)
    /\ req' = [req EXCEPT ![t].pc = "combine"]
    /\ UNCHANGED <<sessions, session_lock, closed, issued>>
    /\ UNCHANGED <<PRESAGE_API_KEY, scorerVars, chainVars, gazeVars, pipelineVars>>

\* the chain's answer goes to the handler: lines 629-632
ChainAnswered(r, out) ==
    IF out.kind = "raise" THEN Respond(r, 500, ErrorBody(out.exc))
    ELSE [r EXCEPT !.pc = "score", !.vitals = Some(out.value)]

\* custom_metrics_processor.py lines 78-114 and process_frame_with_custom_metrics
\* up to the vendor tier: the eye tracker processes the frame; the combined
\* record is accepted, or the handler starts the vendor subprocess and waits
\* in subprocess.run (line 486), or no wrapper is found and the chain ends
FrameCombine(t) ==
    /\ req[t].op = "frame" /\ req[t].pc = "combine"
    /\ LET h == req[t].handle
           processor == heap[h].custom_processor
       IN /\ \E env \in RegistryChainEnvs :
                LET in == [env EXCEPT !.has_processor = (processor # None)]
                IN req' = [req EXCEPT ![t] =
                             IF TryCustom(in).kind = "next" /\ in.wrapper_found
                             THEN [@ EXCEPT !.pc = "vendor", !.chain = in, !.waited = 0]
                             ELSE ChainAnswered(@, ProcessFrameWithCustomMetrics(in))]
          /\ IF processor # None
             THEN /\ heap' = [heap EXCEPT ![h].custom_processor =
                                Some([Val(processor) EXCEPT !.tracker_frames = @ + 1])]
                  /\ touched_closed' = Touch(h)
             ELSE UNCHANGED <<heap, touched_closed>>
    /\ UNCHANGED <<sessions, session_lock, closed, issued>>
    /\ UNCHANGED <<PRESAGE_API_KEY, scorerVars, chainVars, gazeVars, pipelineVars>>

\* subprocess.run without the timeout argument: the wait is never cut off
SubprocessNeverTimesOut(waited) == FALSE

\* subprocess.run(..., timeout=5): TimeoutExpired once the wait has lasted 5 s
SubprocessTimedOut(waited) == waited >= VendorTimeoutSeconds

\* the 5 seconds pass while subprocess.run waits for the child
FrameVendorWait(t) ==
    /\ req[t].op = "frame" /\ req[t].pc = "vendor"
    /\ req[t].waited < VendorTimeoutSeconds
    /\ req' = [req EXCEPT ![t].waited = VendorTimeoutSeconds]
    /\ UNCHANGED <<sessions, session_lock, heap, closed, issued, touched_closed>>
    /\ UNCHANGED <<PRESAGE_API_KEY, scorerVars, chainVars, gazeVars, pipelineVars>>

\* the child exits before the timeout: lines 493-507 and 526-539
FrameVendorExit(t) ==
    /\ req[t].op = "frame" /\ req[t].pc = "vendor"
    /\ ~SubprocessTimedOut(req[t].waited)
    /\ req' = [req EXCEPT ![t] =
                 ChainAnswered(@, ProcessFrameWithCustomMetrics(req[t].chain))]
    /\ UNCHANGED <<sessions, session_lock, heap, closed, issued, touched_closed>>
    /\ UNCHANGED <<PRESAGE_API_KEY, scorerVars, chainVars, gazeVars, pipelineVars>>

\* TimeoutExpired is raised and caught at line 509; lines 526-539 follow
FrameVendorTimeout(t) ==
    /\ req[t].op = "frame" /\ req[t].pc = "vendor"
    /\ SubprocessTimedOut(req[t].waited)
    /\ req' = [req EXCEPT ![t] =
                 ChainAnswered(@, ProcessFrameWithCustomMetrics(
                     [req[t].chain EXCEPT
                         !.vendor = [kind |-> "timeout", after |-> VendorTimeoutTicks]]))]
    /\ UNCHANGED <<sessions, session_lock, heap, closed, issued, touched_closed>>
    /\ UNCHANGED <<PRESAGE_API_KEY, scorerVars, chainVars, gazeVars, pipelineVars>>

\* lines 632-670: session.add_metrics and the response; an exception is
\* answered by the handler at line 664 with status 500
FrameScore(t) ==
    /\ req[t].op = "frame" /\ req[t].pc = "score"
    /\ LET h == req[t].handle
           vitals == Val(req[t].vitals)
           r == AddMetrics(heap[h].scorer,
                    MetricsInput(vitals.heart_rate, vitals.breathing_rate,
                                 VitalsGet(vitals, "gaze_direction", "unknown"),
                                 VitalsGet(vitals, "blink_rate", None),
                                 VitalsGet(vitals, "eye_movement_stability", 0),
                                 VitalsGet(vitals, "focus_duration", 0)))
       IN /\ heap' = [heap EXCEPT ![h].scorer = r.s]
          /\ touched_closed' = Touch(h)
          /\ req' = [req EXCEPT ![t] =
                       IF r.result.kind = "raise"
                       THEN Respond(@, 500, ErrorBody(r.result.exc))
                       ELSE Respond(@, 200, MetricBody(r.result.value))]
    /\ UNCHANGED <<sessions, session_lock, closed, issued>>
    /\ UNCHANGED <<PRESAGE_API_KEY, scorerVars, chainVars, gazeVars, pipelineVars>>

\* ---- POST /api/vitals/session/stop ----

\* a stop request arrives; lines 677-681 validate it
BeginStop(t) ==
    /\ CanBegin(t)
    /\ \E id \in RequestIds :
          LET r == NewRequest("stop", id, None, None, "none")
          IN req' = [req EXCEPT ![t] =
                       IF id = None THEN Respond(r, 400, ErrorBody("session_id is required"))
                       ELSE [r EXCEPT !.pc = "acquire"]]
    /\ issued' = issued + 1
    /\ UNCHANGED <<sessions, session_lock, heap, closed, touched_closed>>
    /\ UNCHANGED <<PRESAGE_API_KEY, scorerVars, chainVars, gazeVars, pipelineVars>>

\* line 683: with session_lock
StopAcquire(t) ==
    /\ req[t].op = "stop" /\ req[t].pc = "acquire"
    /\ session_lock = NoThread
    /\ session_lock' = t
    /\ req' = [req EXCEPT ![t].pc = "aggregate"]
    /\ UNCHANGED <<sessions, heap, closed, issued, touched_closed>>
    /\ UNCHANGED <<PRESAGE_API_KEY, scorerVars, chainVars, gazeVars, pipelineVars>>

\* lines 684-688: the lookup and the aggregate; an unknown id leaves the
\* block, releasing the lock
StopAggregate(t) ==
    /\ req[t].op = "stop" /\ req[t].pc = "aggregate"
    /\ session_lock = t
    /\ LET id == Val(req[t].session_id)
       IN IF id \notin DOMAIN sessions
          THEN /\ req' = [req EXCEPT ![t] = Respond(@, 404, ErrorBody("Session not found"))]
               /\ session_lock' = NoThread
          ELSE /\ req' = [req EXCEPT ![t] =
                            [@ EXCEPT !.pc = "reset", !.handle = sessions[id],
                                      !.aggregated = GetAggregatedMetrics(heap[sessions[id]].scorer)]]
               /\ UNCHANGED session_lock
    /\ UNCHANGED <<sessions, heap, closed, issued, touched_closed>>
    /\ UNCHANGED <<PRESAGE_API_KEY, scorerVars, chainVars, gazeVars, pipelineVars>>

\* lines 690-695: session.custom_processor.reset()
StopReset(t) ==
    /\ req[t].op = "stop" /\ req[t].pc = "reset"
    /\ session_lock = t
    /\ LET h == req[t].handle
       IN heap' = [heap EXCEPT ![h].custom_processor =
                     IF @ # None THEN Some(NewProcessor) ELSE @]
    /\ req' = [req EXCEPT ![t].pc = "delete"]
    /\ UNCHANGED <<sessions, session_lock, closed, issued, touched_closed>>
    /\ UNCHANGED <<PRESAGE_API_KEY, scorerVars, chainVars, gazeVars, pipelineVars>>

\* lines 697-709 without the del statement: the entry stays in the registry
StopDeleteKeepEntry(t) ==
    /\ req[t].op = "stop" /\ req[t].pc = "delete"
    /\ session_lock = t
    /\ session_lock' = NoThread
    /\ req' = [req EXCEPT ![t] =
                 IF req[t].aggregated = None
                 THEN Respond(@, 200, MessageBody("Session stopped but no metrics collected"))
                 ELSE Respond(@, 200, AggregateBody(Val(req[t].aggregated)))]
    /\ UNCHANGED <<sessions, closed, heap, issued, touched_closed>>
    /\ UNCHANGED <<PRESAGE_API_KEY, scorerVars, chainVars, gazeVars, pipelineVars>>

\* lines 697-709: del sessions[session_id], the lock is released, the response
StopDelete(t) ==
    /\ req[t].op = "stop" /\ req[t].pc = "delete"
    /\ session_lock = t
    /\ LET id == Val(req[t].session_id)
       IN /\ sessions' = [k \in DOMAIN sessions \ {id} |-> sessions[k]]
          /\ closed' = closed \cup {req[t].handle}
    /\ session_lock' = NoThread
    /\ req' = [req EXCEPT ![t] =
                 IF req[t].aggregated = None
                 THEN Respond(@, 200, MessageBody("Session stopped but no metrics collected"))
                 ELSE Respond(@, 200, AggregateBody(Val(req[t].aggregated)))]
    /\ UNCHANGED <<heap, issued, touched_closed>>
    /\ UNCHANGED <<PRESAGE_API_KEY, scorerVars, chainVars, gazeVars, pipelineVars>>

RegistryNext ==
    \E t \in Threads :
        \/ BeginStart(t) \/ StartAcquire(t) \/ StartCritical(t)
        \/ BeginFrame(t) \/ FrameAcquire(t) \/ FrameLookup(t)
        \/ FrameDecode(t) \/ FrameMonitor(t) \/ FrameCombine(t)
        \/ FrameVendorWait(t) \/ FrameVendorExit(t) \/ FrameVendorTimeout(t)
        \/ FrameScore(t)
        \/ BeginStop(t) \/ StopAcquire(t) \/ StopAggregate(t)
        \/ StopReset(t) \/ StopDelete(t)

SpecRegistry == RegistryInit /\ [][RegistryNext]_vars

\* a step of the handler thread t is running, other than the arrival of a
\* request and the exit of the vendor's child, which nothing obliges to happen
HandlerStep(t) ==
    \/ StartAcquire(t) \/ StartCritical(t)
    \/ FrameAcquire(t) \/ FrameLookup(t) \/ FrameDecode(t) \/ FrameMonitor(t)
    \/ FrameCombine(t) \/ FrameVendorWait(t) \/ FrameVendorTimeout(t) \/ FrameScore(t)
    \/ StopAcquire(t) \/ StopAggregate(t) \/ StopReset(t) \/ StopDelete(t)

\* the registry with its worker threads scheduled: a thread that can take a
\* step, the lock being free when it needs it, takes it in the end, and time
\* passes for a thread that waits in subprocess.run
SpecRegistryFair ==
    RegistryInit /\ [][RegistryNext]_vars /\ \A t \in Threads : WF_vars(HandlerStep(t))

-----------------------------------------------------------------------------
(* Properties of the registry, checked under SpecRegistry *)

\* C4: a frame call answers with a Metric or with one of the two error
\* outcomes unknown_session (404) and invalid input (400); for an id in the
\* registry and a decodable image it answers with a Metric, whichever tier
\* supplied the vitals.
C4_FrameReturnsMetric ==
    \A t \in Threads :
        (req[t].op = "frame" /\ req[t].pc = "done") =>
            /\ req[t].status \in {200, 400, 404}
            /\ (req[t].handle # NoHandle /\ req[t].frame = "image") =>
                   (req[t].status = 200 /\ req[t].body.kind = "metrics")

\* C5: once stop has removed a session from the registry, that session
\* object receives no further add_metrics call and its trackers process no
\* further frame.
C5_ClosedSessionUntouched == touched_closed = {}

\* C6: of any two frame calls on the same session at most one is inside the
\* session's mutable state (monitor, trackers, scorer) at any time.
C6_OneFrameInFlight ==
    \A t1, t2 \in Threads :
        (t1 # t2 /\ InFlight(t1) /\ InFlight(t2)) => req[t1].handle # req[t2].handle

\* C10: a start on an id already in the registry answers success and leaves
\* the registry and every session object (histories, baselines,
\* metrics_history, frame_count) as they were.
C10_StartIsIdempotent ==
    [][\A t \in Threads :
          (/\ req[t].op = "start" /\ req[t].pc = "critical"
           /\ req'[t].pc = "done"
           /\ Val(req[t].session_id) \in DOMAIN sessions)
          => /\ req'[t].status = 200
             /\ sessions' = sessions
             /\ heap' = heap]_vars

\* C10 witness: a second start on "s1" has been answered while the session
\* created by the first start holds a recorded Metric.
C10_Witness ==
    \E t \in Threads :
        /\ req[t].op = "start" /\ req[t].pc = "done"
        /\ req[t].body.kind = "message"
        /\ req[t].body.message = "Session already exists"
        /\ "s1" \in DOMAIN sessions
        /\ heap[sessions["s1"]].scorer.frame_count > 0
        /\ Len(heap[sessions["s1"]].scorer.metrics_history) > 0

\* the session objects built for 'id' that no stop has removed
LiveHandles(id) ==
    {h \in DOMAIN heap : heap[h].session_id = id /\ h \notin closed}

\* the ids a request can name
SessionIds == {Val(o) : o \in RequestIds \ {None}}

\* C11: under every interleaving of start, frame and stop calls there is at
\* most one live session object per id, it is the one the registry holds, and
\* every start call that names an id and a key answers success; so two
\* concurrent start calls for an absent id build one object between them.
C11_OneSessionPerId ==
    /\ \A id \in SessionIds :
          /\ Cardinality(LiveHandles(id)) <= 1
          /\ id \in DOMAIN sessions => LiveHandles(id) = {sessions[id]}
          /\ id \notin DOMAIN sessions => LiveHandles(id) = {}
    /\ \A t \in Threads :
          (/\ req[t].op = "start" /\ req[t].pc = "done"
           /\ req[t].session_id # None /\ req[t].api_key # None)
          => req[t].status = 200

\* C11 witness: two start calls for "s1" were the only requests received, one
\* answered 'Session started', the other 'Session already exists', and one
\* session object was built.
C11_Witness ==
    /\ issued = 2
    /\ \E t1, t2 \in Threads :
          /\ t1 # t2
          /\ req[t1].op = "start" /\ req[t1].pc = "done"
          /\ req[t2].op = "start" /\ req[t2].pc = "done"
          /\ req[t1].body = MessageBody("Session started")
          /\ req[t2].body = MessageBody("Session already exists")
    /\ Len(heap) = 1
    /\ DOMAIN sessions = {"s1"}

\* C12: stop answers unknown_session (404) exactly when the id is not in the
\* registry at its lookup, and then leaves the registry and every session
\* object as they were; otherwise it reads the aggregate of the registered
\* session (none exactly when its metrics_history holds no Metric), keeps the
\* entry until it removes it, and answers with that aggregate or with none.
C12_StopUnknownOrRemoves ==
    [][\A t \in Threads :
          /\ (req[t].op = "stop" /\ req[t].pc = "aggregate" /\ req'[t] # req[t]) =>
                LET id == Val(req[t].session_id)
                IN IF id \notin DOMAIN sessions
                   THEN /\ req'[t].pc = "done" /\ req'[t].status = 404
                        /\ req'[t].body = ErrorBody("Session not found")
                        /\ sessions' = sessions /\ heap' = heap /\ closed' = closed
                   ELSE /\ req'[t].pc # "done"
                        /\ sessions' = sessions
                        /\ req'[t].handle = sessions[id]
                        /\ (req'[t].aggregated = None) <=>
                               (heap[sessions[id]].scorer.metrics_history = <<>>)
                        /\ req'[t].aggregated # None =>
                               Val(req'[t].aggregated) =
                                   Val(GetAggregatedMetrics(heap[sessions[id]].scorer))
          /\ (req[t].op = "stop" /\ req[t].pc \in {"reset", "delete"}) =>
                /\ Val(req[t].session_id) \in DOMAIN sessions
                /\ sessions[Val(req[t].session_id)] = req[t].handle
          /\ (req[t].op = "stop" /\ req[t].pc = "delete" /\ req'[t].pc = "done") =>
                /\ Val(req[t].session_id) \notin DOMAIN sessions'
                /\ req'[t].status = 200
                /\ req'[t].body.kind \in {"message", "aggregated_metrics"}
                /\ (req'[t].body.kind = "message") <=> (req[t].aggregated = None)
                /\ req'[t].body.kind = "aggregated_metrics" =>
                       req'[t].body.aggregated_metrics = Val(req[t].aggregated)
      ]_vars

\* C12 witness: "s1" was started, one stop removed it and answered without an
\* aggregate, and a later stop for "s1" was answered 404.
C12_Witness ==
    /\ closed # {}
    /\ "s1" \notin DOMAIN sessions
    /\ \E t1, t2 \in Threads :
          /\ req[t1].op = "stop" /\ req[t1].pc = "done" /\ req[t1].status = 404
          /\ req[t2].op = "stop" /\ req[t2].pc = "done" /\ req[t2].status = 200
          /\ req[t2].body = MessageBody("Session stopped but no metrics collected")

\* a frame request that names no id, carries no frame, or carries a frame that
\* does not decode to an image
MalformedFrame(r) ==
    r.op = "frame" /\ (r.session_id = None \/ r.frame \in {"missing", "garbage", "notimage"})

\* a malformed frame request never enters the chain or add_metrics and is
\* answered with an error: 400, or 404 when its id names no session
FrameRejected(r) ==
    MalformedFrame(r) =>
        /\ r.pc \notin {"monitor", "combine", "vendor", "score"}
        /\ r.pc = "done" => r.status \in {400, 404}

\* a start request for which missing(r) holds is answered 400 and never
\* reaches the block that creates the session
StartRejected(r, missing) ==
    (r.op = "start" /\ missing) =>
        /\ r.pc \notin {"acquire", "critical"}
        /\ r.pc = "done" => r.status = 400

\* the steps of a handler whose request is rejected leave the registry and
\* every session object as they were
RejectedStepsChangeNothing(t, rejected) ==
    (req'[t] # req[t] /\ rejected) => (sessions' = sessions /\ heap' = heap)

LockedPositions == {"critical", "lookup", "aggregate", "reset", "delete"}

\* C19: every start, frame and stop call that has arrived returns a response
\* in the end; the wait for the vendor subprocess never lasts longer than 5
\* seconds; and the registry lock is held only by a thread inside a lock
\* block, so that every return, an error return taken inside the block
\* included, leaves it released.
C19_EveryCallReturns ==
    /\ [](\A t \in Threads :
             /\ req[t].pc = "vendor" => req[t].waited <= VendorTimeoutSeconds
             /\ (session_lock = t) <=> (req[t].pc \in LockedPositions))
    /\ \A t \in Threads : (req[t].pc \notin {"idle", "done"}) ~> (req[t].pc = "done")

\* C19 witness: a frame call whose wait for the vendor's child was cut off at
\* 5 seconds goes on with the simulated record, another call has returned
\* and the lock is free.
C19_Witness ==
    /\ session_lock = NoThread
    /\ \E t1, t2 \in Threads :
          /\ req[t1].op = "frame" /\ req[t1].pc = "score"
          /\ req[t1].waited = VendorTimeoutSeconds
          /\ Val(req[t1].vitals).source = "simulated"
          /\ req[t2].pc = "done"

-----------------------------------------------------------------------------
(* HeartRateMonitor (heart_rate_monitor.py)                                 *)
(* A signal sample is an integer grey level, a timestamp a clock reading in *)
(* ticks, a rate an even integer per minute (so that the median of a rate   *)
(* history is an integer), signal_quality is counted in hundredths, rounded *)
(* down.  The spectral analysis of lines 138-169 and 201-232 (detrend,      *)
(* band-pass filter, FFT, strongest bin inside the band) is an input of the *)
(* frame: the rate of that bin, or None when the analysis raises.           *)

MonitorFps == 30
MonitorBufferDuration == 30
MonitorBufferSize == MonitorFps * MonitorBufferDuration
MonitorRateHistoryCap == 10
MinHeartRateSamplesShort == MonitorFps - 1
MinHeartRateSamples == 30
MinBreathingRateSamples == 60
MinQualitySamples == 10
HeartRateBandMin == 42
HeartRateBandMax == 240
HeartRateValidMin == 40
HeartRateValidMax == 200
BreathingRateValidMin == 6
BreathingRateValidMax == 30

\* HeartRateMonitor.__init__ and reset()
NewMonitor ==
    [ roi_initialized  |-> FALSE,
      signal_buffer    |-> <<>>,
      timestamp_buffer |-> <<>>,
      hr_history       |-> <<>>,
      br_history       |-> <<>>,
      last_hr          |-> None,
      last_br          |-> None,
      signal_quality   |-> 0 ]

\* sum of s[lo..hi], by halving
RECURSIVE RangeSum(_, _, _)
RangeSum(s, lo, hi) ==
    IF lo > hi THEN 0
    ELSE IF lo = hi THEN s[lo]
    ELSE LET mid == (lo + hi) \div 2
         IN RangeSum(s, lo, mid) + RangeSum(s, mid + 1, hi)

\* sum of the squares of s[lo..hi], by halving
RECURSIVE RangeSumSq(_, _, _)
RangeSumSq(s, lo, hi) ==
    IF lo > hi THEN 0
    ELSE IF lo = hi THEN s[lo] * s[lo]
    ELSE LET mid == (lo + hi) \div 2
         IN RangeSumSq(s, lo, mid) + RangeSumSq(s, mid + 1, hi)

\* Len(s)^2 times np.var(s)
ArrayVarTimesN2(s) ==
    Len(s) * RangeSumSq(s, 1, Len(s)) - RangeSum(s, 1, Len(s)) * RangeSum(s, 1, Len(s))

\* the number of entries of s below x, and the number equal to x
CountBelow(s, x) == Cardinality({i \in DOMAIN s : s[i] < x})
CountEqual(s, x) == Cardinality({i \in DOMAIN s : s[i] = x})

\* sorted(s)[k], for 1 <= k <= Len(s)
KthSmallest(s, k) ==
    CHOOSE x \in {s[i] : i \in DOMAIN s} :
        CountBelow(s, x) < k /\ k <= CountBelow(s, x) + CountEqual(s, x)

\* np.median(list(history)) of a non-empty history
Median(s) ==
    IF Len(s) % 2 = 1 THEN KthSmallest(s, (Len(s) + 1) \div 2)
    ELSE (KthSmallest(s, Len(s) \div 2) + KthSmallest(s, Len(s) \div 2 + 1)) \div 2

\* _calculate_heart_rate, lines 171-178, returning the peak unvalidated
CalculateHeartRateUnchecked(peak) == peak

\* _calculate_heart_rate, lines 171-182: the strongest in-band bin as a rate,
\* kept only inside [40,200]; None when the analysis raised
CalculateHeartRate(peak) ==
    IF peak = None THEN None
    ELSE IF HeartRateValidMin <= Val(peak) /\ Val(peak) <= HeartRateValidMax THEN peak
    ELSE None

\* _calculate_breathing_rate, lines 234-245
CalculateBreathingRate(peak) ==
    IF peak = None THEN None
    ELSE IF BreathingRateValidMin <= Val(peak) /\ Val(peak) <= BreathingRateValidMax THEN peak
    ELSE None

\* _calculate_signal_quality, lines 247-265: min(100.0, np.var(signal_array)
\* * 100.0), in hundredths rounded down (the division is done two digits at a
\* time to stay inside 32 bits)
CalculateSignalQuality(signal_array) ==
    IF Len(signal_array) < MinQualitySamples THEN 0
    ELSE LET n2 == Len(signal_array) * Len(signal_array)
             var_n2 == ArrayVarTimesN2(signal_array)
             units == (100 * (var_n2 % n2)) \div n2
             rest == (100 * ((100 * (var_n2 % n2)) % n2)) \div n2
         IN IF var_n2 >= n2 THEN 10000 ELSE 100 * units + rest

\* the dict process_frame returns
MonitorMetrics(heart_rate, breathing_rate, signal_quality) ==
    [ heart_rate |-> heart_rate, breathing_rate |-> breathing_rate,
      signal_quality |-> signal_quality ]

\* HeartRateMonitor.process_frame.  frame.roi: _initialize_roi finds a
\* forehead region in the frame; frame.signal: the mean the region in use
\* yields (None when its crop is empty); frame.resignal: the mean a region
\* initialised again on this frame yields.
MonitorProcessFrame(m, frame, timestamp) ==
    IF ~m.roi_initialized /\ ~frame.roi THEN [m |-> m, result |-> None]
    ELSE
    LET m1 == [m EXCEPT !.roi_initialized = TRUE]
        signal_value == IF frame.signal # None THEN frame.signal
                        ELSE IF frame.roi THEN frame.resignal
                        ELSE None
    IN IF signal_value = None THEN [m |-> m1, result |-> None]
       ELSE
       LET m2 == [m1 EXCEPT
                    !.signal_buffer = DequeAppend(@, Val(signal_value), MonitorBufferSize),
                    !.timestamp_buffer = DequeAppend(@, timestamp, MonitorBufferSize)]
       IN IF Len(m2.signal_buffer) < MinHeartRateSamples
          THEN [m |-> m2, result |-> Some(MonitorMetrics(None, None, 0))]
          ELSE
          LET heart_rate == CalculateHeartRate(frame.hr_peak)
              breathing_rate ==
                  IF Len(m2.signal_buffer) >= MinBreathingRateSamples
                  THEN CalculateBreathingRate(frame.br_peak) ELSE None
              hr_history == IF heart_rate # None
                            THEN DequeAppend(m2.hr_history, Val(heart_rate), MonitorRateHistoryCap)
                            ELSE m2.hr_history
              br_history == IF breathing_rate # None
                            THEN DequeAppend(m2.br_history, Val(breathing_rate), MonitorRateHistoryCap)
                            ELSE m2.br_history
              m3 == [m2 EXCEPT
                       !.hr_history = hr_history,
                       !.br_history = br_history,
                       !.last_hr = IF heart_rate # None THEN Some(Median(hr_history)) ELSE None,
                       !.last_br = IF breathing_rate # None THEN Some(Median(br_history)) ELSE None,
                       !.signal_quality = CalculateSignalQuality(m2.signal_buffer)]
          IN [m |-> m3,
              result |-> Some(MonitorMetrics(m3.last_hr, m3.last_br, m3.signal_quality))]

-----------------------------------------------------------------------------
(* The two EyeTracker variants, whole: blink detection, the position history *)
(* and the metrics dict.  An eye aspect ratio is an exact fraction; a        *)
(* landmark position is counted in hundredths of the frame, a face centre in *)
(* pixels; eye_movement_stability is counted in hundredths, rounded down.    *)

EarHistoryCap == 30
PositionHistoryCap == 30
EarConsecutiveFrames == 2
EarThreshold == [num |-> 25, den |-> 100]
BlinkWindowTicks == 300
MinBlinkWindowTicks == 50
MinStabilitySamples == 5
DefaultStability == 5000

FractionLess(a, b) == a.num * b.den < b.num * a.den

\* EyeTracker.__init__ of either variant with every field, at clock reading t
NewEyeTracker(variant, t) ==
    [ variant          |-> variant,
      gaze_history     |-> <<>>,
      focus_start_time |-> None,
      total_focus_time |-> 0,
      last_update_time |-> t,
      ear_history      |-> <<>>,
      position_history |-> <<>>,
      blink_count      |-> 0,
      last_blink_time  |-> None ]

\* the eye aspect ratio of the docstring, with a second vertical distance
CalculateEarTwoVerticals(eye) ==
    LET vertical_dist_1 == eye.vertical
        vertical_dist_2 == eye.vertical
        horizontal_dist == eye.horizontal
    IN IF horizontal_dist = 0 THEN [num |-> 0, den |-> 1]
       ELSE [num |-> vertical_dist_1 + vertical_dist_2, den |-> 2 * horizontal_dist]

\* eye_tracker.py, _calculate_ear, lines 91-100: vertical_dist_2 is computed
\* from the same two landmarks as horizontal_dist
CalculateEar(eye) ==
    LET vertical_dist_1 == eye.vertical
        vertical_dist_2 == eye.horizontal
        horizontal_dist == eye.horizontal
    IN IF horizontal_dist = 0 THEN [num |-> 0, den |-> 1]
       ELSE [num |-> vertical_dist_1 + vertical_dist_2, den |-> 2 * horizontal_dist]

\* eye_tracker.py, _detect_blink: the tracker after the push and the verdict
DetectBlink(tr, left_ear, right_ear) ==
    LET avg_ear == [ num |-> left_ear.num * right_ear.den + right_ear.num * left_ear.den,
                     den |-> 2 * left_ear.den * right_ear.den ]
        ear_history == DequeAppend(tr.ear_history, avg_ear, EarHistoryCap)
        n == Len(ear_history)
    IN [ tr    |-> [tr EXCEPT !.ear_history = ear_history],
         blink |-> /\ n >= EarConsecutiveFrames
                   /\ \A i \in (n - EarConsecutiveFrames + 1)..(n - 1) :
                          FractionLess(ear_history[i], EarThreshold)
                   /\ FractionLess(EarThreshold, ear_history[n]) ]

\* eye_tracker.py, _calculate_blink_rate, read at clock reading current_time
CalculateBlinkRate(tr, current_time) ==
    IF tr.last_blink_time = None THEN None
    ELSE LET time_window == current_time - (tr.last_update_time - BlinkWindowTicks)
         IN IF time_window < MinBlinkWindowTicks THEN None
            ELSE Some((tr.blink_count * 600) \div time_window)

\* the two coordinates of a position history
RECURSIVE Coordinate(_, _)
Coordinate(positions, k) ==
    IF positions = <<>> THEN <<>>
    ELSE <<Head(positions)[k]>> \o Coordinate(Tail(positions), k)

\* n^2 times np.sum(np.var(positions, axis=0))
TotalVarianceTimesN2(positions) ==
    VarTimesN2(Coordinate(positions, 1)) + VarTimesN2(Coordinate(positions, 2))

\* eye_tracker.py, _calculate_eye_movement_stability:
\* max(0, min(100, 100 - total_variance * 1000))
LandmarkStability(tr) ==
    LET n == Len(tr.position_history)
    IN IF n < MinStabilitySamples THEN DefaultStability
       ELSE Max2(0, Min2(10000,
                10000 + ((0 - 10 * TotalVarianceTimesN2(tr.position_history)) \div (n * n))))

\* eye_tracker_simple.py, _calculate_eye_movement_stability:
\* max(0, min(100, 100 - total_variance * 0.01))
CoarseStability(tr) ==
    LET n == Len(tr.position_history)
    IN IF n < MinStabilitySamples THEN DefaultStability
       ELSE Max2(0, Min2(10000,
                10000 + ((0 - TotalVarianceTimesN2(tr.position_history)) \div (n * n))))

\* the dict process_frame of either variant returns
TrackerMetrics(gaze, blink_rate, stability, focus_duration, face_detected) ==
    [ gaze_direction |-> gaze, blink_rate |-> blink_rate,
      eye_movement_stability |-> stability, focus_duration |-> focus_duration,
      face_detected |-> face_detected ]

\* eye_tracker.py, EyeTracker.process_frame, whole
LandmarkTrackFrame(tr, frame, timestamp, current_time) ==
    IF ~frame.face
    THEN [tr |-> tr, metrics |-> TrackerMetrics("unknown", None, 0, tr.total_focus_time, FALSE)]
    ELSE
    LET seen == DetectBlink(tr, CalculateEar(frame.left_eye), CalculateEar(frame.right_eye))
        tr1 == IF seen.blink
               THEN [seen.tr EXCEPT !.blink_count = @ + 1, !.last_blink_time = Some(timestamp)]
               ELSE seen.tr
        step == LandmarkProcessFrame(tr1, frame, timestamp, current_time)
        tr2 == [step.tr EXCEPT
                  !.position_history = DequeAppend(@, frame.position, PositionHistoryCap)]
    IN [tr |-> tr2,
        metrics |-> TrackerMetrics(step.metrics.gaze_direction,
                                   CalculateBlinkRate(tr2, current_time),
                                   LandmarkStability(tr2), tr2.total_focus_time, TRUE)]

\* eye_tracker_simple.py, EyeTracker.process_frame, whole
CoarseTrackFrame(tr, frame, timestamp, current_time) ==
    IF ~frame.face
    THEN [tr |-> tr, metrics |-> TrackerMetrics("unknown", None, 0, tr.total_focus_time, FALSE)]
    ELSE
    LET step == CoarseProcessFrame(tr, frame, timestamp, current_time)
        tr2 == [step.tr EXCEPT
                  !.position_history = DequeAppend(@, frame.position, PositionHistoryCap)]
    IN [tr |-> tr2,
        metrics |-> TrackerMetrics(step.metrics.gaze_direction, None,
                                   CoarseStability(tr2), tr2.total_focus_time, TRUE)]

\* self.eye_tracker.process_frame(frame, timestamp)
TrackFrame(tr, frame, timestamp, current_time) ==
    IF tr.variant = "landmark" THEN LandmarkTrackFrame(tr, frame, timestamp, current_time)
    ELSE CoarseTrackFrame(tr, frame, timestamp, current_time)

-----------------------------------------------------------------------------
(* CustomMetricsProcessor (custom_metrics_processor.py)                     *)
(* overall_quality is the exact fraction [num, den], in hundredths.         *)

\* CustomMetricsProcessor.__init__ and reset(): the fields of its own
NewCustomProcessor == [frame_count |-> 0, last_metrics |-> None, initialized |-> FALSE]

\* _calculate_overall_quality: the weights are counted in tenths, the terms in
\* hundredths; metrics.get('face_detected', False) reads the combined dict
CalculateOverallQuality(metrics) ==
    LET hr_on == metrics.heart_rate # None
        face_on == IF "face_detected" \in DOMAIN metrics THEN metrics.face_detected ELSE FALSE
        gaze_on == metrics.gaze_direction # "unknown"
        quality == (IF hr_on THEN 4 * metrics.signal_quality ELSE 0)
                   + (IF face_on THEN 3 * metrics.eye_movement_stability ELSE 0)
                   + (IF gaze_on THEN 30000 ELSE 0)
        factors == (IF hr_on THEN 4 ELSE 0) + (IF face_on THEN 3 ELSE 0)
                   + (IF gaze_on THEN 3 ELSE 0)
    IN IF factors > 0
       THEN [num |-> Min2(10000 * factors, quality), den |-> factors]
       ELSE [num |-> 0, den |-> 1]

\* lines 81-105: the combined dict before overall_quality is added
CombineMetrics(frame_count, hr_metrics, eye_metrics) ==
    [ heart_rate             |-> IF hr_metrics # None THEN Val(hr_metrics).heart_rate ELSE None,
      breathing_rate         |-> IF hr_metrics # None THEN Val(hr_metrics).breathing_rate ELSE None,
      gaze_direction         |-> eye_metrics.gaze_direction,
      blink_rate             |-> eye_metrics.blink_rate,
      eye_movement_stability |-> eye_metrics.eye_movement_stability,
      focus_duration         |-> eye_metrics.focus_duration,
      signal_quality         |-> IF hr_metrics # None THEN Val(hr_metrics).signal_quality ELSE 0,
      source                 |-> "custom",
      frame_count            |-> frame_count ]

\* CustomMetricsProcessor.process_frame: the three objects afterwards, what
\* the two sensors returned and the dict handed back
CombinerProcessFrame(p, m, tr, frame, timestamp, current_time) ==
    LET frame_count == p.frame_count + 1
        heart == MonitorProcessFrame(m, frame, timestamp)
        eye == TrackFrame(tr, frame, timestamp, current_time)
        combined_metrics == CombineMetrics(frame_count, heart.result, eye.metrics)
        result == [ k \in DOMAIN combined_metrics \cup {"overall_quality"} |->
                       IF k = "overall_quality"
                       THEN CalculateOverallQuality(combined_metrics)
                       ELSE combined_metrics[k] ]
    IN [ p |-> [frame_count |-> frame_count, last_metrics |-> Some(result), initialized |-> TRUE],
         m |-> heart.m,
         tr |-> eye.tr,
         hr_metrics |-> heart.result,
         eye_metrics |-> eye.metrics,
         result |-> result ]

-----------------------------------------------------------------------------
(* SpecPipeline: one session's processor, monitor, tracker and scorer fed a  *)
(* sequence of frames, as the body of process_frame feeds them (lines        *)
(* 628-649).  No vendor wrapper is installed.  Frames arrive one tick apart. *)

\* The first ScriptFrames frames are those of ScriptFrame, a face in view
\* whose readings vary with the frame number; they carry the run past the
\* capacity of every buffer.  The frames after them, up to MaxPipelineFrames,
\* are any of PipelineFrames.
ScriptFrames == 900
MaxPipelineFrames == 903

OpenEye == [vertical |-> 3, horizontal |-> 10]

SensorFrame(roi, signal, hr_peak, br_peak, face, h, v, position) ==
    [ roi |-> roi, signal |-> signal, resignal |-> None,
      hr_peak |-> hr_peak, br_peak |-> br_peak,
      face |-> face, h |-> h, v |-> v, eye_distance_zero |-> FALSE,
      left_eye |-> OpenEye, right_eye |-> OpenEye, position |-> position ]

\* frame number n of the warm-up: the heart-rate peak is inside [40,200] on
\* every 8th frame and at 210 otherwise; the gaze goes round away, unknown,
\* screen, screen, screen
ScriptFrame(n) ==
    SensorFrame(TRUE, Some(n % 3),
                IF n % 8 = 0 THEN Some(60 + 2 * ((n \div 8) % 11)) ELSE Some(210),
                Some(12 + 2 * (n % 4)),
                TRUE, IF n % 5 = 0 THEN 50 ELSE IF n % 5 = 1 THEN 25 ELSE 0, 0,
                <<50 + (n % 2), 50>>)

\* frames with the peak at the ends of the band and of the valid range, with
\* and without a face, with the gaze of each class
PipelineFrames ==
    { SensorFrame(TRUE, None, None, None, FALSE, 0, 0, <<0, 0>>),
      SensorFrame(TRUE, Some(1), Some(HeartRateBandMin), Some(12), TRUE, 0, 0, <<50, 50>>),
      SensorFrame(TRUE, Some(40), Some(HeartRateValidMax), Some(30), FALSE, 0, 0, <<0, 0>>),
      SensorFrame(TRUE, Some(0), Some(HeartRateValidMax + 2), Some(6), TRUE, 25, 0, <<70, 20>>),
      SensorFrame(TRUE, Some(2), Some(HeartRateBandMax), None, TRUE, 50, 0, <<90, 90>>),
      SensorFrame(TRUE, Some(1), None, Some(14), TRUE, 0, 0, <<50, 50>>) }

PipelineFramesAt(n) == IF n < ScriptFrames THEN {ScriptFrame(n)} ELSE PipelineFrames

\* the collaborators of the chain for one frame of the pipeline
PipelineEnv(combiner) == ChainEnv(combiner, FALSE)

PipelineInit ==
    /\ monitor = NewMonitor
    /\ custom_processor = NewCustomProcessor
    /\ sensed = NoResult
    /\ tracker \in {NewEyeTracker("landmark", 0), NewEyeTracker("coarse", 0)}
    /\ now = 0
    /\ gaze_log = <<>>
    /\ session = NewSession
    /\ calls = 0
    /\ pushed_hr = EmptyLog
    /\ pushed_br = EmptyLog
    /\ last_result = NoResult
    /\ call_log = <<>>
    /\ IdleChain /\ IdleRegistry

\* one frame: custom_processor.process_frame inside the chain (line 441),
\* then session.add_metrics on what the chain returned (lines 636-649)
PipelineFrame ==
    /\ custom_processor.frame_count < MaxPipelineFrames
    /\ \E frame \in PipelineFramesAt(custom_processor.frame_count) :
       \E step \in {CombinerProcessFrame(custom_processor, monitor, tracker,
                                         frame, now + 1, now + 1)} :
          LET vitals == ProcessFrameWithCustomMetrics(PipelineEnv(Ret(step.result))).value
              in == MetricsInput(vitals.heart_rate, vitals.breathing_rate,
                                 VitalsGet(vitals, "gaze_direction", "unknown"),
                                 VitalsGet(vitals, "blink_rate", None),
                                 VitalsGet(vitals, "eye_movement_stability", 0),
                                 VitalsGet(vitals, "focus_duration", 0))
          IN \E r \in {AddMetrics(session, in)} :
             /\ now' = now + 1
             /\ custom_processor' = step.p
             /\ monitor' = step.m
             /\ tracker' = step.tr
             /\ sensed' = [ hr_metrics |-> step.hr_metrics, eye_metrics |-> step.eye_metrics,
                            hr_peak |-> frame.hr_peak ]
             /\ session' = r.s
             /\ last_result' = r.result
             /\ pushed_hr' = Logged(pushed_hr, in.heart_rate)
             /\ pushed_br' = Logged(pushed_br, in.breathing_rate)
    /\ calls' = calls + 1
    /\ UNCHANGED <<call_log, gaze_log, chainVars, registryVars>>

PipelineNext == PipelineFrame

SpecPipeline == PipelineInit /\ [][PipelineNext]_vars

-----------------------------------------------------------------------------
(* Properties of the pipeline *)

\* what one push may do to a buffer of capacity cap: nothing is lost but the
\* oldest entry, and that only when the buffer was full
PushedOnce(old, new, cap) ==
    /\ Len(new) >= 1
    /\ IF Len(old) < cap
       THEN SubSeq(new, 1, Len(new) - 1) = old
       ELSE Len(new) = cap /\ SubSeq(new, 1, cap - 1) = SubSeq(old, 2, cap)

RingStep(old, new, cap) == Len(new) <= cap /\ (new = old \/ PushedOnce(old, new, cap))

\* C15: every ring buffer (the monitor's signal and timestamp buffers and its
\* two rate histories, the tracker's gaze, ear and position histories, the
\* scorer's rate and eye histories and metrics_history) holds at most its
\* capacity after every frame, and a frame changes it only by one push that,
\* when the buffer is full, drops the oldest entry.
C15_RingBuffersBounded ==
    [][ /\ RingStep(monitor.signal_buffer, monitor'.signal_buffer, MonitorBufferSize)
        /\ RingStep(monitor.timestamp_buffer, monitor'.timestamp_buffer, MonitorBufferSize)
        /\ RingStep(monitor.hr_history, monitor'.hr_history, MonitorRateHistoryCap)
        /\ RingStep(monitor.br_history, monitor'.br_history, MonitorRateHistoryCap)
        /\ RingStep(tracker.gaze_history, tracker'.gaze_history, GazeHistoryCap)
        /\ RingStep(tracker.ear_history, tracker'.ear_history, EarHistoryCap)
        /\ RingStep(tracker.position_history, tracker'.position_history, PositionHistoryCap)
        /\ RingStep(session.heart_rates, session'.heart_rates, RateHistoryCap)
        /\ RingStep(session.breathing_rates, session'.breathing_rates, RateHistoryCap)
        /\ RingStep(session.gaze_directions, session'.gaze_directions, EyeHistoryCap)
        /\ RingStep(session.blink_rates, session'.blink_rates, EyeHistoryCap)
        /\ RingStep(session.eye_movement_stabilities, session'.eye_movement_stabilities, EyeHistoryCap)
        /\ RingStep(session.focus_durations, session'.focus_durations, EyeHistoryCap)
        /\ RingStep(session.metrics_history, session'.metrics_history, MetricsHistoryCap)
      ]_vars

\* every buffer is full and has dropped entries: the timestamp buffer no
\* longer starts at the first frame, and more Metrics were recorded than
\* metrics_history holds
C15_Witness ==
    /\ Len(monitor.signal_buffer) = MonitorBufferSize
    /\ monitor.timestamp_buffer[1] > 1
    /\ Len(monitor.hr_history) = MonitorRateHistoryCap
    /\ Len(monitor.br_history) = MonitorRateHistoryCap
    /\ Len(tracker.gaze_history) = GazeHistoryCap
    /\ Len(tracker.position_history) = PositionHistoryCap
    /\ Len(session.heart_rates) = RateHistoryCap /\ pushed_hr.n > RateHistoryCap
    /\ Len(session.breathing_rates) = RateHistoryCap /\ pushed_br.n > RateHistoryCap
    /\ Len(session.gaze_directions) = EyeHistoryCap
    /\ Len(session.focus_durations) = EyeHistoryCap
    /\ Len(session.metrics_history) = MetricsHistoryCap
    /\ session.frame_count > MetricsHistoryCap

\* the heart_rate of the dict the monitor returned for the latest frame, None
\* when it returned no dict
ReportedHeartRate ==
    IF sensed = NoResult \/ sensed.hr_metrics = None THEN None
    ELSE Val(sensed.hr_metrics).heart_rate

\* C16: whenever HeartRateMonitor.process_frame reports a heart_rate that is
\* not None, the value, which is the median of the rate history, lies in
\* [40,200] BPM, whatever in-band peaks (42 to 240 BPM) the frames so far had.
C16_HeartRateInValidRange ==
    ReportedHeartRate # None =>
        HeartRateValidMin <= Val(ReportedHeartRate) /\ Val(ReportedHeartRate) <= HeartRateValidMax

\* a rate is reported from a full history, it is not this frame's own peak,
\* and frames with a peak above 200 BPM came before it
C16_Witness ==
    /\ ReportedHeartRate # None
    /\ Len(monitor.hr_history) = MonitorRateHistoryCap
    /\ Val(ReportedHeartRate) # Val(sensed.hr_peak)
    /\ Len(monitor.signal_buffer) > MinHeartRateSamples + MonitorRateHistoryCap

\* the blend of the terms that contribute: signal_quality x 0.4 when a heart
\* rate is present, eye stability x 0.3 when the tracker detected a face, a
\* flat 30 when the gaze is not unknown, over the sum of the weights used
BlendOfContributingTerms(metrics, face_detected) ==
    LET hr_on == metrics.heart_rate # None
        gaze_on == metrics.gaze_direction # "unknown"
        quality == (IF hr_on THEN 4 * metrics.signal_quality ELSE 0)
                   + (IF face_detected THEN 3 * metrics.eye_movement_stability ELSE 0)
                   + (IF gaze_on THEN 30000 ELSE 0)
        factors == (IF hr_on THEN 4 ELSE 0) + (IF face_detected THEN 3 ELSE 0)
                   + (IF gaze_on THEN 3 ELSE 0)
    IN IF factors > 0 THEN [num |-> quality, den |-> factors] ELSE [num |-> 0, den |-> 1]

\* C20: the overall_quality of the dict the combiner returned for the latest
\* frame is the blend of exactly the contributing terms, the stability term
\* among them whenever the tracker detected a face on that frame, and lies in
\* [0,100].
C20_OverallQualityIsBlend ==
    custom_processor.last_metrics # None =>
        LET metrics == Val(custom_processor.last_metrics)
        IN /\ SameFraction(metrics.overall_quality,
                           BlendOfContributingTerms(metrics, sensed.eye_metrics.face_detected))
           /\ 0 <= metrics.overall_quality.num
           /\ metrics.overall_quality.num <= 10000 * metrics.overall_quality.den

-----------------------------------------------------------------------------
(* SpecBlink: one whole tracker of either variant fed frames whose eyes are *)
(* nearly closed, degenerate (left and right corner on one point) or mixed, *)
(* 0.1 s or 20 s apart.  The log keeps the timestamp of every blink the     *)
(* tracker registered and the dict the latest face frame returned.          *)

MaxBlinkFrames == 5

NarrowEye == [vertical |-> 1, horizontal |-> 10]
ClosedEye == [vertical |-> 0, horizontal |-> 10]
DegenerateEye == [vertical |-> 1, horizontal |-> 0]

BlinkDeltas == {1, 200}

EyesFrame(face, left_eye, right_eye) ==
    [ face |-> face, h |-> 0, v |-> 0, eye_distance_zero |-> FALSE,
      left_eye |-> left_eye, right_eye |-> right_eye, position |-> <<50, 50>> ]

BlinkFrames ==
    { EyesFrame(FALSE, OpenEye, OpenEye), EyesFrame(TRUE, NarrowEye, OpenEye),
      EyesFrame(TRUE, ClosedEye, ClosedEye),
      EyesFrame(TRUE, DegenerateEye, DegenerateEye), EyesFrame(TRUE, DegenerateEye, OpenEye) }

EmptyBlinkLog == [n |-> 0, blinks |-> <<>>, metrics |-> None, ears |-> <<>>]

\* what the latest call returned: 'ear_left' and 'ear_right' are keys of the
\* dict the landmark variant returns for a face frame (lines 335-336)
BlinkLogged(log, before, frame, step, timestamp) ==
    [ n       |-> log.n + 1,
      blinks  |-> IF step.tr.blink_count > before.blink_count
                  THEN Append(log.blinks, timestamp) ELSE log.blinks,
      metrics |-> Some(step.metrics),
      ears    |-> IF frame.face /\ before.variant = "landmark"
                  THEN <<CalculateEar(frame.left_eye), CalculateEar(frame.right_eye)>>
                  ELSE <<>> ]

BlinkInit ==
    /\ tracker \in {NewEyeTracker("landmark", 0), NewEyeTracker("coarse", 0)}
    /\ now = 0
    /\ gaze_log = EmptyBlinkLog
    /\ IdleScorer /\ IdleChain /\ IdleRegistry /\ IdlePipeline

\* the combiner hands a frame to its tracker, dt ticks after the previous one
BlinkTrackFrame ==
    /\ gaze_log.n < MaxBlinkFrames
    /\ \E dt \in BlinkDeltas, frame \in BlinkFrames :
       \E step \in {TrackFrame(tracker, frame, now + dt, now + dt)} :
          /\ now' = now + dt
          /\ tracker' = step.tr
          /\ gaze_log' = BlinkLogged(gaze_log, tracker, frame, step, now + dt)
    /\ UNCHANGED <<scorerVars, chainVars, registryVars, pipelineVars>>

BlinkNext == BlinkTrackFrame

SpecBlink == BlinkInit /\ [][BlinkNext]_vars

-----------------------------------------------------------------------------
(* Properties of blink detection, checked under SpecBlink *)

BlinkRegistered == tracker'.blink_count > tracker.blink_count

EarBelow(ear) == FractionLess(ear, EarThreshold)
EarAbove(ear) == FractionLess(EarThreshold, ear)

\* C21: the landmark tracker registers a blink on a frame only when the
\* average EAR was below 0.25 on each of the 2 preceding face frames and is
\* above 0.25 on this one; one sub-threshold frame followed by recovery is not
\* a blink.
C21_BlinkNeedsTwoClosedFrames ==
    [][BlinkRegistered =>
          LET h == tracker'.ear_history
              n == Len(h)
          IN /\ n >= EarConsecutiveFrames + 1
             /\ \A i \in (n - EarConsecutiveFrames)..(n - 1) : EarBelow(h[i])
             /\ EarAbove(h[n])]_vars

\* the blinks registered inside the window that ends at clock reading t
BlinksInWindow(blinks, t) ==
    Cardinality({i \in 1..Len(blinks) : blinks[i] > t - BlinkWindowTicks})

\* C22: the landmark tracker reports a blink_rate only when a blink has been
\* registered and at least 5 s of tracking have elapsed since construction,
\* and the rate reported is the number of blinks inside the last 30 s scaled
\* to one minute, whatever the count of older blinks.
C22_BlinkRateOverRecentWindow ==
    (gaze_log.metrics # None /\ Val(gaze_log.metrics).blink_rate # None) =>
        /\ Len(gaze_log.blinks) >= 1
        /\ now >= MinBlinkWindowTicks
        /\ Val(Val(gaze_log.metrics).blink_rate)
             = (BlinksInWindow(gaze_log.blinks, now) * 600) \div BlinkWindowTicks

-----------------------------------------------------------------------------
(* SpecClassify: a new tracker of either variant is handed one frame, drawn *)
(* with every pair of offsets from 0 to MaxOffset hundredths, with and      *)
(* without a face and with the two eye centres apart or on one point.       *)

MaxOffset == 45

OffsetFrame(face, h, v, eye_distance_zero) ==
    [ face |-> face, h |-> h, v |-> v, eye_distance_zero |-> eye_distance_zero,
      left_eye |-> OpenEye, right_eye |-> OpenEye, position |-> <<50, 50>> ]

ClassifyInit ==
    /\ tracker \in {NewEyeTracker("landmark", 0), NewEyeTracker("coarse", 0)}
    /\ now = 0
    /\ gaze_log \in { [frame |-> OffsetFrame(face, h, v, z), metrics |-> None] :
                         face \in BOOLEAN, h \in 0..MaxOffset, v \in 0..MaxOffset,
                         z \in BOOLEAN }
    /\ IdleScorer /\ IdleChain /\ IdleRegistry /\ IdlePipeline

\* the tracker processes the frame
ClassifyFrame ==
    /\ gaze_log.metrics = None
    /\ \E step \in {TrackFrame(tracker, gaze_log.frame, now + 1, now + 1)} :
          /\ now' = now + 1
          /\ tracker' = step.tr
          /\ gaze_log' = [gaze_log EXCEPT !.metrics = Some(step.metrics)]
    /\ UNCHANGED <<scorerVars, chainVars, registryVars, pipelineVars>>

ClassifyNext == ClassifyFrame

SpecClassify == ClassifyInit /\ [][ClassifyNext]_vars

\* C23: a frame with a face is classified screen exactly when both offsets
\* are below the variant's threshold t (0.15 landmark, 0.2 coarse), away
\* exactly when one of them is above 2t, and unknown in every other case,
\* offsets equal to t or 2t and (landmark) a zero inter-eye distance
\* included; the coarse variant's blink_rate is none on every frame.
C23_ThreeWayGazeClassification ==
    gaze_log.metrics # None =>
        LET frame == gaze_log.frame
            metrics == Val(gaze_log.metrics)
            landmark == tracker.variant = "landmark"
            t == IF landmark THEN 15 ELSE 20
            measurable == ~(landmark /\ frame.eye_distance_zero)
            g == metrics.gaze_direction
        IN /\ frame.face =>
                /\ g \in {"screen", "away", "unknown"}
                /\ g = "screen" <=> (measurable /\ frame.h < t /\ frame.v < t)
                /\ g = "away" <=> (measurable /\ (frame.h > 2 * t \/ frame.v > 2 * t))
           /\ ~landmark => metrics.blink_rate = None

\* C23 witness: the landmark variant has classified a frame with one offset
\* exactly at 2t and the other exactly at t as unknown
C23_Witness ==
    /\ gaze_log.metrics # None
    /\ tracker.variant = "landmark"
    /\ gaze_log.frame.face /\ ~gaze_log.frame.eye_distance_zero
    /\ gaze_log.frame.h = 30 /\ gaze_log.frame.v = 15
    /\ Val(gaze_log.metrics).gaze_direction = "unknown"

-----------------------------------------------------------------------------
(* SpecMonitor: one HeartRateMonitor fed frames one tick apart.  Around the *)
(* start and around every 30th frame a frame may yield no reading: no       *)
(* forehead region is found, or the region in use yields nothing and a new  *)
(* one yields nothing either.  Every other frame yields a reading.          *)

MaxMonitorFrames == 64

ReadingFrame == [ roi |-> TRUE, signal |-> Some(1), resignal |-> None, hr_peak |-> Some(72), br_peak |-> Some(14) ]
NoRoiFrame == [ roi |-> FALSE, signal |-> None, resignal |-> None, hr_peak |-> None, br_peak |-> None ]
LostSignalFrame == [ roi |-> TRUE, signal |-> None, resignal |-> None, hr_peak |-> None, br_peak |-> None ]
RegainedSignalFrame == [ roi |-> TRUE, signal |-> None, resignal |-> Some(1), hr_peak |-> Some(72), br_peak |-> Some(14) ]

\* the frames that may come as frame number n + 1
MonitorFramesAt(n) ==
    IF n % MonitorFps \in {0, 1, MonitorFps - 2, MonitorFps - 1}
    THEN {ReadingFrame, NoRoiFrame, LostSignalFrame, RegainedSignalFrame}
    ELSE {ReadingFrame}

MonitorInit ==
    /\ monitor = NewMonitor
    /\ sensed = NoResult
    /\ custom_processor = ProcessorIdle
    /\ IdleGaze /\ IdleScorer /\ IdleChain /\ IdleRegistry

\* heart_rate_monitor.process_frame(frame, timestamp) on the next frame;
\* custom_processor.frame_count counts the frames handed over
MonitorFrame ==
    /\ custom_processor.frame_count < MaxMonitorFrames
    /\ \E frame \in MonitorFramesAt(custom_processor.frame_count) :
       \E step \in {MonitorProcessFrame(monitor, frame, custom_processor.frame_count + 1)} :
          /\ monitor' = step.m
          /\ sensed' = [hr_metrics |-> step.result]
          /\ custom_processor' = [frame_count |-> custom_processor.frame_count + 1]
    /\ UNCHANGED <<scorerVars, chainVars, registryVars, gazeVars>>

MonitorNext == MonitorFrame

SpecMonitor == MonitorInit /\ [][MonitorNext]_vars

\* C24: the dict the monitor returns has heart_rate none while fewer than 30
\* samples are buffered and breathing_rate none while fewer than 60 are; and
\* a frame that yields no reading returns no dict and leaves the sample and
\* timestamp buffers as they were, while a frame with a reading adds one
\* sample.
C24_RatesNeedBufferedSamples ==
    /\ []((sensed # NoResult /\ sensed.hr_metrics # None) =>
             /\ Len(monitor.signal_buffer) < 30 => Val(sensed.hr_metrics).heart_rate = None
             /\ Len(monitor.signal_buffer) < 60 => Val(sensed.hr_metrics).breathing_rate = None)
    /\ [][IF sensed'.hr_metrics = None
          THEN /\ monitor'.signal_buffer = monitor.signal_buffer
               /\ monitor'.timestamp_buffer = monitor.timestamp_buffer
          ELSE Len(monitor'.signal_buffer) = Len(monitor.signal_buffer) + 1]_vars

\* C24 witness: after 62 frames, 3 of which yielded no reading, 59 samples
\* are buffered and the monitor reports a heart rate but no breathing rate
C24_Witness ==
    /\ custom_processor.frame_count = 62
    /\ Len(monitor.signal_buffer) = 59
    /\ sensed.hr_metrics # None
    /\ Val(sensed.hr_metrics).heart_rate # None
    /\ Val(sensed.hr_metrics).breathing_rate = None

-----------------------------------------------------------------------------
(* Scoring of records that lack a rate, checked under SpecPipeline *)

\* the call of add_metrics made in this step was given no heart rate or no
\* breathing rate
CalledWithoutARate ==
    /\ calls' = calls + 1
    /\ pushed_hr'.n = pushed_hr.n \/ pushed_br'.n = pushed_br.n

\* the dict the combiner returned for the latest frame carries exactly one
\* of the two rates
CombinerGaveOneRate ==
    /\ custom_processor.last_metrics # None
    /\ (Val(custom_processor.last_metrics).heart_rate = None)
         # (Val(custom_processor.last_metrics).breathing_rate = None)

\* C26: a call of add_metrics given no heart rate or no breathing rate
\* returns a Metric, records it, and the Metric's focus_score,
\* engagement_score and thinking_intensity are 0 whatever the eye inputs; and
\* a combiner record with exactly one of the two rates is accepted by the
\* chain, so it is the record scored in that way.
C26_MissingRateScoresZero ==
    /\ [][CalledWithoutARate =>
             /\ last_result'.kind = "return"
             /\ last_result'.value.focus_score = 0
             /\ last_result'.value.engagement_score = 0
             /\ last_result'.value.thinking_intensity = 0
             /\ session'.frame_count = session.frame_count + 1
             /\ session'.metrics_history # <<>>
             /\ session'.metrics_history[Len(session'.metrics_history)] = last_result'.value]_vars
    /\ [](CombinerGaveOneRate =>
             /\ last_result.kind = "return"
             /\ last_result.value.heart_rate = Val(custom_processor.last_metrics).heart_rate
             /\ last_result.value.breathing_rate = Val(custom_processor.last_metrics).breathing_rate
             /\ last_result.value.gaze_direction = Val(custom_processor.last_metrics).gaze_direction
             /\ last_result.value.focus_score = 0)

\* C26 witness: a combiner record with a heart rate and no breathing rate, a
\* gaze on the screen and a focus duration above 0 was scored 0
C26_Witness ==
    /\ CombinerGaveOneRate
    /\ Val(custom_processor.last_metrics).heart_rate # None
    /\ last_result.kind = "return"
    /\ last_result.value.gaze_direction = "screen"
    /\ last_result.value.focus_duration > 0
    /\ last_result.value.eye_movement_stability > 0
    /\ last_result.value.thinking_intensity = 0

-----------------------------------------------------------------------------
(* The length of metrics_history, checked under SpecHistory *)

-----------------------------------------------------------------------------
(* The extent of the registry lock, checked under SpecRegistry *)

\* the positions of a frame call after its lookup: decoding, the combiner,
\* the wait for the vendor's child, scoring
FrameWorkPositions == {"decode", "monitor", "combine", "vendor", "score"}

\* C28: a thread holds the registry lock only inside the lookup, insert and
\* remove blocks (the aggregate and the reset of stop among them), never
\* while it decodes a frame, runs it through the chain, waits for the vendor
\* subprocess or scores it; so whenever no thread is inside such a block the
\* lock is free for a start, stop or frame lookup, whatever frame calls are
\* waiting on the vendor.
C28_LockNotHeldDuringFrameWork ==
    /\ \A t \in Threads :
          req[t].pc \in FrameWorkPositions => session_lock # t
    /\ (\A t \in Threads : req[t].pc \notin LockedPositions) => session_lock = NoThread
    /\ \A t \in Threads :
          (req[t].pc = "vendor" /\ session_lock # NoThread) =>
              req[session_lock].pc \in LockedPositions

\* C28 witness: while one frame call waits on the vendor subprocess, a stop
\* call holds the lock and is computing its aggregate
C28_Witness ==
    \E t1, t2 \in Threads :
        /\ req[t1].op = "frame" /\ req[t1].pc = "vendor"
        /\ req[t2].op = "stop" /\ req[t2].pc = "reset"
        /\ session_lock = t2

-----------------------------------------------------------------------------
(* The growth of total_focus_time, checked under SpecGaze *)

\* C29: in both variants a frame makes total_focus_time grow only when it
\* and the frame processed just before it both had a face classified screen,
\* and then by the time elapsed between those two frames; the time spanned by
\* frames without a face is never added.
C29_FocusGrowsBetweenScreenFrames ==
    [][tracker'.total_focus_time # tracker.total_focus_time =>
          /\ Len(gaze_log'.last) = 2
          /\ \A i \in 1..2 : gaze_log'.last[i].face /\ gaze_log'.last[i].gaze = "screen"
          /\ tracker'.total_focus_time - tracker.total_focus_time = now' - now]_vars

====
